---- MODULE Spec2Model ----
(***************************************************************************)
(* Model of the ban-decision engine of WebFail2Ban:                        *)
(*   internal/ipban/manager.go   Manager (ledger `stats` + RadixTree)       *)
(*   internal/config/manager.go  DB blacklist / whitelist tables            *)
(*   api (BanManager)            HandleManualBan / HandleManualUnban /      *)
(*                               whitelist handlers                         *)
(* Every Manager method runs under Manager.mutex, so one action is one     *)
(* method call.  Wall-clock time is the variable `now`; a method reads the  *)
(* clock once per model instant (RecordViolation and banIP read it within   *)
(* the same critical section).                                              *)
(***************************************************************************)
EXTENDS Integers, Sequences, FiniteSets, TLC

VARIABLES
    cfg,        \* Manager.cfg.Ban : the ban configuration in use
    addrs,      \* the address strings clients and log lines use in this run
    now,        \* time.Now()
    stats,      \* Manager.stats : map[string]*IPStats
    tree,       \* Manager.tree  : RadixTree, node path -> RadixNode
    blacklist,  \* table blacklist : ip_address -> row state
    whitelist,  \* table whitelist : ip_address -> row state
    last,       \* the call that produced the current state and what it returned
    hist,       \* history of the calls, per address (not read by any action)
    mutex,      \* Manager.mutex : sync.RWMutex
    procs,      \* the goroutines calling into the Manager concurrently
    reply,      \* what the last request to an adapter or log line produced
    clients,    \* spoa.Server.clients : connections being handled
    syslogPatterns, \* cfg.Syslog.Patterns : the configured rules
    patterns,   \* syslog.Reader.patterns : the compiled rules
    cm,         \* config.ConfigManager
    sm,         \* api.SecurityMiddleware
    shutdown,   \* main: the cancellation context, the tasks, the wait
    conn        \* the connection a spoa.Server.handleClient goroutine serves

vars ==
    <<cfg, addrs, now, stats, tree, blacklist, whitelist, last, hist,
      mutex, procs, reply, clients, syslogPatterns, patterns,
      cm, sm, shutdown, conn>>

\* what a Manager method called on its own, from start to return, leaves as
\* it found it: the lock is free again and no goroutine is inside
serverVars == <<mutex, procs>>

\* what belongs to the adapters and to the log reader, which the Manager
\* and the admin API never touch
adapterVars == <<reply, clients, syslogPatterns, patterns>>

\* the configuration manager, the middleware of the admin API, the shutdown
\* of main and the SPOA connection: each has a specification of its own
serviceVars == <<cm, sm, shutdown, conn>>

\* the Manager, the tables and the record of its calls
managerVars ==
    <<cfg, addrs, now, stats, tree, blacklist, whitelist, last, hist>>

----------------------------------------------------------------------------
(* Bounds of the exploration *)

\* number of clock ticks explored after the start instant
MaxTicks == 3
\* longest Violations slice RecordViolation may leave behind
MaxViolations == 2
\* largest BanCount an entry may reach
MaxBanCount == 2
\* number of goroutines calling the Manager at the same time
NumGoroutines == 2

\* tokens in a line sent to the SPOA server
MaxTokens == 3

\* connections the clients of the SPOA server open at the same time
MaxConnections == 2
\* bits walked per octet by the RadixTree (8 in the source, scaled down)
OctetBits == 2

----------------------------------------------------------------------------
(* Time *)

\* time.Time{} : the zero instant
ZeroTime == 0

\* the first instant of a run; later than the zero instant by more than any
\* negative manual duration, as the wall clock is
StartTime == ZeroTime + 2

MaxTime == StartTime + MaxTicks

\* time.Time.Before / time.Time.After : strict comparisons
Before(t, u) == t < u

After(t, u) == t > u

----------------------------------------------------------------------------
(* Addresses: net.ParseIP and ipToBytes *)

V4 == "10.0.0.1"

V4Mapped == "::ffff:10.0.0.1"

V4Other == "10.0.0.2"

V6 == "a00:1::"

Malformed == "bogus"

AllAddrs == {V4, V4Mapped, V4Other, V6, Malformed}

\* the address sets a run may use
Universes == {{V4, Malformed}}

\* ipToBytes: nil (here <<>>) for a string net.ParseIP rejects, the 4-octet
\* form when To4() is non-nil (IPv4 and IPv4-mapped IPv6), the 16-octet form
\* otherwise.  Octet strings are scaled: 2 octets for v4, 4 octets for v6.
ipToBytes(ip) ==
    CASE ip = V4       -> <<2, 1>>
      [] ip = V4Mapped -> <<2, 1>>
      [] ip = V4Other  -> <<2, 2>>
      [] ip = V6       -> <<2, 1, 0, 1>>
      [] OTHER         -> <<>>

\* validateIP / isValidIP : net.ParseIP(ip) != nil
validateIP(ip) == ipToBytes(ip) # <<>>

RECURSIVE Pow2(_)
Pow2(n) == IF n = 0 THEN 1 ELSE 2 * Pow2(n - 1)

\* for i := 7; i >= 0; i-- { bit := (b >> i) & 1 } : the bits of one octet,
\* most significant first
OctetPath(b) == [k \in 1..OctetBits |-> (b \div Pow2(OctetBits - k)) % 2]

\* the path of bits walked for a byte slice
RECURSIVE BitPath(_)
BitPath(bytes) ==
    IF bytes = <<>> THEN <<>>
    ELSE OctetPath(Head(bytes)) \o BitPath(Tail(bytes))

----------------------------------------------------------------------------
(* RadixTree: a node is identified by the path of bits from the root *)

\* &RadixNode{}
EmptyNode == [isEnd |-> FALSE, ip |-> "", banned |-> FALSE]

NewRadixTree == (<<>> :> EmptyNode)

Prefixes(path) == {SubSeq(path, 1, n) : n \in 0..Len(path)}

\* RadixTree.Insert
Insert(t, ip) ==
    LET bytes == ipToBytes(ip)
        path  == BitPath(bytes)
    IN  IF bytes = <<>> THEN t
        ELSE [p \in DOMAIN t \cup Prefixes(path) |->
                IF p = path THEN [isEnd |-> TRUE, ip |-> ip, banned |-> TRUE]
                ELSE IF p \in DOMAIN t THEN t[p]
                ELSE EmptyNode]

\* a search that stops at the node without looking at isEnd and banned
Search_AnyNode(t, ip) ==
    LET bytes == ipToBytes(ip)
        path  == BitPath(bytes)
    IN  IF bytes = <<>> THEN FALSE
        ELSE path \in DOMAIN t

\* RadixTree.Search
Search(t, ip) ==
    LET bytes == ipToBytes(ip)
        path  == BitPath(bytes)
    IN  IF bytes = <<>> THEN FALSE
        ELSE IF path \notin DOMAIN t THEN FALSE
        ELSE t[path].isEnd /\ t[path].banned

\* RadixTree.Delete
Delete(t, ip) ==
    LET bytes == ipToBytes(ip)
        path  == BitPath(bytes)
    IN  IF bytes = <<>> THEN t
        ELSE IF path \notin DOMAIN t THEN t
        ELSE IF t[path].isEnd THEN [t EXCEPT ![path].banned = FALSE]
        ELSE t

\* Delete applied for every address of a set (the order does not matter:
\* each Delete only clears the flag of its own terminal)
RECURSIVE DeleteAll(_, _)
DeleteAll(t, ips) ==
    IF ips = {} THEN t
    ELSE LET ip == CHOOSE x \in ips : TRUE
         IN  DeleteAll(Delete(t, ip), ips \ {ip})

----------------------------------------------------------------------------
(* config.BanConfig.  Durations are integers in one unit (a minute for       *)
(* DocConfig); EscalationFactor is the rational FactorNum / FactorDen.       *)

\* the values the tests and the documentation use, in minutes:
\* initial_ban_time 5m, max_ban_time 24h, escalation_factor 2.0 (FactorNum /
\* FactorDen), time_window 10m, max_memory_ttl 72h; max_attempts is 2 here
\* (3 in getTestConfig, 5 by default) to keep the Violations slice short
DocConfig ==
    [InitialBanTime |-> 5, MaxBanTime |-> 1440, FactorNum |-> 2, FactorDen |-> 1,
     MaxAttempts |-> 2, TimeWindow |-> 10, MaxMemoryTTL |-> 4320]

\* short durations and a fractional factor: bans expire and escalate in a run
ShortConfig ==
    [InitialBanTime |-> 1, MaxBanTime |-> 4, FactorNum |-> 3, FactorDen |-> 2,
     MaxAttempts |-> 2, TimeWindow |-> 2, MaxMemoryTTL |-> 3]

\* max_ban_time = initial_ban_time, one attempt bans, and a memory TTL shorter
\* than the time window (as in TestCleanup)
TightConfig ==
    [InitialBanTime |-> 2, MaxBanTime |-> 2, FactorNum |-> 3, FactorDen |-> 2,
     MaxAttempts |-> 1, TimeWindow |-> 3, MaxMemoryTTL |-> 1]

BanConfigs == {DocConfig, ShortConfig, TightConfig}

\* the severity of the pattern rule of the run (PatternConfig.Severity); the
\* engine only adds severities up, so one value other than 1 tells the sum
\* from the count
Severities == {3}

Descriptions == {"auth failed"}

\* durations handed to ManualBan (the API passes req.Duration unchecked)
ManualDurations == {-1, 2}

----------------------------------------------------------------------------
(* IPStats and the steps of RecordViolation / banIP *)

\* &IPStats{Violations: make([]Violation, 0), FirstSeen: now, LastSeen: now}
NewIPStats(t) ==
    [Violations |-> <<>>, BanExpiry |-> ZeroTime, BanCount |-> 0,
     FirstSeen |-> t, LastSeen |-> t, TotalSeverity |-> 0]

Violation(t, severity, description) ==
    [Timestamp |-> t, Severity |-> severity, Description |-> description]

RECURSIVE SumSeverity(_)
SumSeverity(vs) ==
    IF vs = <<>> THEN 0 ELSE Head(vs).Severity + SumSeverity(Tail(vs))

\* stats.LastSeen = now; stats.TotalSeverity += severity; append
AppendViolation(st, t, severity, description) ==
    [st EXCEPT !.LastSeen = t,
               !.TotalSeverity = @ + severity,
               !.Violations = Append(@, Violation(t, severity, description))]

\* v.Timestamp.After(cutoff), cutoff := now.Add(-TimeWindow)
InWindow(v, t) == After(v.Timestamp, t - cfg.TimeWindow)

\* the window filter without "stats.TotalSeverity = 0 ... += v.Severity"
CleanOldViolations_StaleTotal(st, t) ==
    [st EXCEPT !.Violations = SelectSeq(@, LAMBDA v : InWindow(v, t))]

\* "Clean old violations outside time window"
CleanOldViolations(st, t) ==
    LET validViolations == SelectSeq(st.Violations, LAMBDA v : InWindow(v, t))
    IN  [st EXCEPT !.Violations = validViolations,
                   !.TotalSeverity = SumSeverity(validViolations)]

\* the threshold test with > in place of >=
ShouldBan_StrictlyMore(st, t) ==
    Len(st.Violations) > cfg.MaxAttempts /\ Before(st.BanExpiry, t)

\* the threshold test without a look at the ban that is running
ShouldBan_IgnoresExpiry(st, t) == Len(st.Violations) >= cfg.MaxAttempts

\* len(stats.Violations) >= MaxAttempts && stats.BanExpiry.Before(now)
ShouldBan(st, t) ==
    Len(st.Violations) >= cfg.MaxAttempts /\ Before(st.BanExpiry, t)

\* a ban duration that does not grow with the ban count
banDuration_NoEscalation(banCount) ==
    LET d == (cfg.InitialBanTime * cfg.FactorNum) \div cfg.FactorDen
    IN  IF d > cfg.MaxBanTime THEN cfg.MaxBanTime ELSE d

\* time.Duration(float64(InitialBanTime) * float64(BanCount) * EscalationFactor)
\* capped at MaxBanTime; the conversion to Duration truncates
banDuration(banCount) ==
    LET d == (cfg.InitialBanTime * banCount * cfg.FactorNum) \div cfg.FactorDen
    IN  IF d > cfg.MaxBanTime THEN cfg.MaxBanTime ELSE d

\* banIP counting the ban duration back from now
banIP_Backdated(st, t) ==
    [st EXCEPT !.BanCount = @ + 1,
               !.BanExpiry = t - banDuration(st.BanCount + 1)]

\* banIP without the cap at MaxBanTime
banIP_NoCap(st, t) ==
    [st EXCEPT !.BanCount = @ + 1,
               !.BanExpiry = t + (cfg.InitialBanTime * (st.BanCount + 1)
                                    * cfg.FactorNum) \div cfg.FactorDen]

\* banIP on the entry: BanCount++, BanExpiry = now + banDuration
banIP(st, t) ==
    [st EXCEPT !.BanCount = @ + 1,
               !.BanExpiry = t + banDuration(st.BanCount + 1)]

\* m.stats[ip] = st
\* a store that keeps only the entry it was handed
Put_KeepsOnlyThis(m, ip, st) == [k \in {ip} |-> st]

\* m.stats[ip] = st
Put(m, ip, st) ==
    [k \in DOMAIN m \cup {ip} |-> IF k = ip THEN st ELSE m[k]]

\* IsBanned answering from the index alone, without looking at BanExpiry
IsBannedResult_IgnoresExpiry(ip) ==
    IF ip \notin DOMAIN stats THEN FALSE ELSE Search(tree, ip)

\* what IsBanned returns
IsBannedResult(ip) ==
    IF ip \notin DOMAIN stats THEN FALSE
    ELSE IF After(stats[ip].BanExpiry, now) THEN Search(tree, ip)
    ELSE FALSE

\* IsBanned leaving the index as it found it
IsBannedTree_NoRepair(ip) == tree

\* the tree IsBanned leaves: "Ban expired, remove from tree"
IsBannedTree(ip) ==
    IF ip \notin DOMAIN stats THEN tree
    ELSE IF After(stats[ip].BanExpiry, now) THEN tree
    ELSE Delete(tree, ip)

----------------------------------------------------------------------------
(* The record of the last call, and the per-address history *)

\* count : the number the call returned (purged or evicted entries), or the
\*         duration ManualBan was called with
Call(op, ip, ret, count) == [op |-> op, ip |-> ip, ret |-> ret, count |-> count]

\* bans      : durations of the violation-driven bans since the entry was created
\* manual    : number of ManualBan calls since the entry was created
\* crossings : number of times, in the whole run, RecordViolation found at
\*             least max_attempts violations in the window while the ban of
\*             the address was not running (BanExpiry not after now)
\* recorded  : the violations RecordViolation was called with whose timestamp
\*             is later than now - time_window
\* inserted  : RadixTree.Insert was called with this string (kept by the
\*             direct calls on the tree, see SpecTree)
\* sinceBan  : number of RecordViolation calls for the address since the last
\*             ban of the address was applied (by banIP or ManualBan), counted
\*             up to max_attempts
NoHistory ==
    [bans |-> <<>>, manual |-> 0, crossings |-> 0, recorded |-> <<>>,
     inserted |-> FALSE, sinceBan |-> 0]

----------------------------------------------------------------------------
(* Manager.mutex and the goroutines *)

Goroutines == 1..NumGoroutines

\* sync.RWMutex: the goroutine holding Lock (0 for none) and those holding
\* RLock
Unlocked == [writer |-> 0, readers |-> {}]

\* a goroutine that is not inside a Manager method.  pc is "idle", "body"
\* (RecordViolation holds Lock), "return", "search" or "delete" (IsBanned
\* holds RLock and has looked ip up in the ledger and compared its BanExpiry
\* with the clock); op, ip, severity, description are the call
Idle ==
    [pc |-> "idle", op |-> "", ip |-> "", severity |-> 0, description |-> ""]

\* no adapter has answered, no SPOA client is connected, no rule is configured
NoReply == [adapter |-> ""]

\* the parts of the service a specification leaves out
Absent == [present |-> FALSE]

NoService ==
    /\ cm = Absent
    /\ sm = Absent
    /\ shutdown = Absent
    /\ conn = Absent

NoServers ==
    /\ reply = NoReply
    /\ clients = 0
    /\ syslogPatterns = <<>>
    /\ patterns = <<>>
    /\ NoService

----------------------------------------------------------------------------
(* Manager methods *)

\* NewManager, with the configuration and the address set of the run
Init ==
    /\ cfg \in BanConfigs
    /\ addrs \in Universes
    /\ now = StartTime
    /\ stats = << >>
    /\ tree = NewRadixTree
    /\ blacklist = [ip \in addrs |-> "absent"]
    /\ whitelist = [ip \in addrs |-> "absent"]
    /\ last = Call("NewManager", "", FALSE, 0)
    /\ hist = [ip \in addrs |-> NoHistory]
    /\ mutex = Unlocked
    /\ procs = [g \in Goroutines |-> Idle]
    /\ NoServers

\* the wall clock advances
Tick ==
    /\ now < MaxTime
    /\ now' = now + 1
    /\ last' = Call("Tick", "", FALSE, 0)
    /\ hist' = [ip \in addrs |->
                  [hist[ip] EXCEPT !.recorded =
                      SelectSeq(@, LAMBDA v :
                          v.Timestamp > (now + 1) - cfg.TimeWindow)]]
    /\ UNCHANGED <<cfg, addrs, stats, tree, blacklist, whitelist>>

\* a RecordViolation that bans in the ledger and leaves the index alone
recordViolation_LedgerOnly(s, tr, ip, severity, description, t) ==
    LET st0 == IF ip \in DOMAIN s THEN s[ip] ELSE NewIPStats(t)
        st2 == CleanOldViolations(
                   AppendViolation(st0, t, severity, description), t)
        ban == ShouldBan(st2, t)
    IN  [stats |-> Put(s, ip, IF ban THEN banIP(st2, t) ELSE st2),
         tree |-> tr, ban |-> ban]

\* the body of RecordViolation on a ledger s and an index tr at instant t:
\* the ledger and the index it leaves, and whether it banned
recordViolation(s, tr, ip, severity, description, t) ==
    LET st0 == IF ip \in DOMAIN s THEN s[ip] ELSE NewIPStats(t)
        st1 == AppendViolation(st0, t, severity, description)
        st2 == CleanOldViolations(st1, t)
        ban == ShouldBan(st2, t)
        st3 == IF ban THEN banIP(st2, t) ELSE st2
    IN  [stats |-> Put(s, ip, st3),
         tree |-> IF ban THEN Insert(tr, ip) ELSE tr,
         ban |-> ban]

\* the history after the body of RecordViolation has run on the ledger s at
\* instant t
recordHistory(h, s, ip, severity, description, t) ==
    LET st0 == IF ip \in DOMAIN s THEN s[ip] ELSE NewIPStats(t)
        st1 == AppendViolation(st0, t, severity, description)
        st2 == CleanOldViolations(st1, t)
        ban == ShouldBan(st2, t)
        st3 == IF ban THEN banIP(st2, t) ELSE st2
    IN  [h EXCEPT
           ![ip].recorded = Append(@, Violation(t, severity, description)),
           ![ip].bans = IF ban THEN Append(@, st3.BanExpiry - t) ELSE @,
           ![ip].sinceBan = IF ban THEN 0
                            ELSE IF @ < cfg.MaxAttempts THEN @ + 1 ELSE @,
           ![ip].crossings =
               IF /\ Len(st2.Violations) >= cfg.MaxAttempts
                  /\ ~After(st0.BanExpiry, t)
               THEN @ + 1 ELSE @]

\* whether the RecordViolation stays within the bounds of the exploration
withinBounds(s, ip, severity, description, t) ==
    LET st0 == IF ip \in DOMAIN s THEN s[ip] ELSE NewIPStats(t)
        st2 == CleanOldViolations(
                   AppendViolation(st0, t, severity, description), t)
    IN  /\ Len(st2.Violations) <= MaxViolations
        /\ ShouldBan(st2, t) => st2.BanCount < MaxBanCount

\* Manager.RecordViolation
RecordViolation(ip, severity, description) ==
    LET res == recordViolation(stats, tree, ip, severity, description, now)
    IN  /\ withinBounds(stats, ip, severity, description, now)
        /\ stats' = res.stats
        /\ tree' = res.tree
        /\ last' = Call("RecordViolation", ip, res.ban, 0)
        /\ hist' = recordHistory(hist, stats, ip, severity, description, now)
        /\ UNCHANGED <<cfg, addrs, now, blacklist, whitelist>>

\* Manager.IsBanned
IsBanned(ip) ==
    /\ tree' = IsBannedTree(ip)
    /\ last' = Call("IsBanned", ip, IsBannedResult(ip), 0)
    /\ UNCHANGED <<cfg, addrs, now, stats, blacklist, whitelist, hist>>

\* GetRadixTreeStats()["total_ips_tracked"] and GetStatsCount: len(m.stats)
TotalIPsTracked == Cardinality(DOMAIN stats)

\* GetAllBannedIPs: the keys with !BanExpiry.IsZero() && BanExpiry.After(now)
GetAllBannedIPs ==
    {ip \in DOMAIN stats :
        stats[ip].BanExpiry # ZeroTime /\ After(stats[ip].BanExpiry, now)}

\* an eviction test that looks at LastSeen only
cleanupEvicts_IgnoresBan(st, t) == Before(st.LastSeen, t - cfg.MaxMemoryTTL)

\* the entries one cleanup pass removes from memory
cleanupEvicts(st, t) ==
    Before(st.LastSeen, t - cfg.MaxMemoryTTL) /\ Before(st.BanExpiry, t)

\* Manager.cleanup, one pass of the StartCleanup ticker
cleanup ==
    LET evicted == {ip \in DOMAIN stats : cleanupEvicts(stats[ip], now)}
        expired == {ip \in DOMAIN stats : Before(stats[ip].BanExpiry, now)}
    IN  /\ stats' = [ip \in DOMAIN stats \ evicted |-> stats[ip]]
        /\ tree' = DeleteAll(tree, expired)
        /\ last' = Call("cleanup", "", FALSE, Cardinality(evicted))
        /\ hist' = [ip \in addrs |->
                      IF ip \in evicted
                      THEN [hist[ip] EXCEPT !.bans = <<>>, !.manual = 0]
                      ELSE hist[ip]]
        /\ UNCHANGED <<cfg, addrs, now, blacklist, whitelist>>

\* a manual ban added to the previous expiry instead of to now
manualBanStats_Extends(st, t, duration) ==
    [st EXCEPT !.BanExpiry = @ + duration, !.BanCount = @ + 1, !.LastSeen = t]

\* ManualBan without stats.BanCount++
manualBanStats_NoCount(st, t, duration) ==
    [st EXCEPT !.BanExpiry = t + duration, !.LastSeen = t]

\* the entry after ManualBan
manualBanStats(st, t, duration) ==
    [st EXCEPT !.BanExpiry = t + duration, !.BanCount = @ + 1, !.LastSeen = t]

\* Manager.ManualBan
ManualBan(ip, duration) ==
    LET st0 == IF ip \in DOMAIN stats THEN stats[ip] ELSE NewIPStats(now)
    IN  /\ st0.BanCount < MaxBanCount
        /\ tree' = Insert(tree, ip)
        /\ stats' = Put(stats, ip, manualBanStats(st0, now, duration))
        /\ last' = Call("ManualBan", ip, TRUE, duration)
        /\ hist' = [hist EXCEPT ![ip].manual = @ + 1, ![ip].sinceBan = 0]
        /\ UNCHANGED <<cfg, addrs, now, blacklist, whitelist>>

\* an unban that also forgets the ban count
clearBan_ResetsCount(st) == [st EXCEPT !.BanExpiry = ZeroTime, !.BanCount = 0]

\* "Clear ban expiry in stats"
clearBan(st) == [st EXCEPT !.BanExpiry = ZeroTime]

\* an unban that touches neither the index nor the ledger
ManualUnban_NoOp(ip) ==
    /\ last' = Call("ManualUnban", ip, TRUE, 0)
    /\ UNCHANGED <<cfg, addrs, now, stats, tree, blacklist, whitelist, hist>>

\* Manager.ManualUnban
ManualUnban(ip) ==
    /\ tree' = Delete(tree, ip)
    /\ stats' = IF ip \in DOMAIN stats
                THEN [stats EXCEPT ![ip] = clearBan(@)]
                ELSE stats
    /\ last' = Call("ManualUnban", ip, TRUE, 0)
    /\ UNCHANGED <<cfg, addrs, now, blacklist, whitelist, hist>>

\* a purge that clears only the bans that have run out
PurgeAllBans_OnlyExpired ==
    LET purged == {ip \in DOMAIN stats :
                     /\ stats[ip].BanExpiry # ZeroTime
                     /\ Before(stats[ip].BanExpiry, now)}
    IN  /\ tree' = DeleteAll(tree, purged)
        /\ stats' = [ip \in DOMAIN stats |->
                       IF ip \in purged THEN clearBan(stats[ip]) ELSE stats[ip]]
        /\ last' = Call("PurgeAllBans", "", TRUE, Cardinality(purged))
        /\ UNCHANGED <<cfg, addrs, now, blacklist, whitelist, hist>>

\* Manager.PurgeAllBans
PurgeAllBans ==
    LET purged == {ip \in DOMAIN stats : stats[ip].BanExpiry # ZeroTime}
    IN  /\ tree' = DeleteAll(tree, purged)
        /\ stats' = [ip \in DOMAIN stats |->
                       IF ip \in purged THEN clearBan(stats[ip]) ELSE stats[ip]]
        /\ last' = Call("PurgeAllBans", "", TRUE, Cardinality(purged))
        /\ UNCHANGED <<cfg, addrs, now, blacklist, whitelist, hist>>

\* Manager.PurgeExpiredBans
PurgeExpiredBans ==
    LET purged == {ip \in DOMAIN stats :
                     /\ stats[ip].BanExpiry # ZeroTime
                     /\ Before(stats[ip].BanExpiry, now)}
    IN  /\ tree' = DeleteAll(tree, purged)
        /\ stats' = [ip \in DOMAIN stats |->
                       IF ip \in purged THEN clearBan(stats[ip]) ELSE stats[ip]]
        /\ last' = Call("PurgeExpiredBans", "", TRUE, Cardinality(purged))
        /\ UNCHANGED <<cfg, addrs, now, blacklist, whitelist, hist>>

\* Reader.processMessage: a log line reaches RecordViolation only with an
\* address isValidIP accepts
RecordViolationStep ==
    \E ip \in addrs, severity \in Severities, description \in Descriptions :
        /\ validateIP(ip)
        /\ RecordViolation(ip, severity, description)

\* the three adapters hand IsBanned whatever string the request carried
IsBannedStep == \E ip \in addrs : IsBanned(ip)

\* BanManager.HandleManualBan, temporary ban: validateIP, then ManualBan
ManualBanStep ==
    \E ip \in addrs, duration \in ManualDurations :
        /\ validateIP(ip)
        /\ ManualBan(ip, duration)

\* Manager.ManualUnban as the admin API reaches it (validateIP first)
ManualUnbanStep ==
    \E ip \in addrs :
        /\ validateIP(ip)
        /\ ManualUnban(ip)

Next ==
    /\ \/ Tick
       \/ RecordViolationStep
       \/ IsBannedStep
       \/ cleanup
       \/ ManualBanStep
       \/ ManualUnbanStep
       \/ PurgeAllBans
       \/ PurgeExpiredBans
    /\ UNCHANGED <<serverVars, adapterVars, serviceVars>>

Spec == Init /\ [][Next]_vars

TypeOK ==
    /\ now \in StartTime..MaxTime
    /\ DOMAIN stats \subseteq addrs
    /\ \A ip \in DOMAIN stats : stats[ip].BanCount \in 0..MaxBanCount

----------------------------------------------------------------------------
(* Persistent lists: tables blacklist and whitelist, ip_address UNIQUE,      *)
(* enabled DEFAULT TRUE.  A row is "absent", "enabled" or "disabled".        *)

\* INSERT INTO <list> (ip_address, ...): a new row is enabled; a second row
\* for the same address violates UNIQUE and the table is left as it is
insertRow(tbl, ip) ==
    IF tbl[ip] = "absent" THEN [tbl EXCEPT ![ip] = "enabled"] ELSE tbl

\* UPDATE <list> SET enabled = FALSE WHERE ip_address = ?
disableRow(tbl, ip) ==
    IF tbl[ip] = "absent" THEN tbl ELSE [tbl EXCEPT ![ip] = "disabled"]

\* SELECT COUNT(*) FROM <list> WHERE ip_address = ? AND enabled = TRUE
IsBlacklisted(ip) == blacklist[ip] = "enabled"

IsWhitelisted(ip) == whitelist[ip] = "enabled"

\* BanManager.HandleManualBan with permanent = true: DB.AddToBlacklist;
\* a UNIQUE error is answered "already blacklisted", success
HandleManualBanPermanent(ip) ==
    /\ validateIP(ip)
    /\ blacklist' = insertRow(blacklist, ip)
    /\ last' = Call("HandleManualBan", ip, TRUE, 0)
    /\ UNCHANGED <<cfg, addrs, now, stats, tree, whitelist, hist>>

\* BanManager.HandleManualUnban: DB.RemoveFromBlacklist when the address is
\* blacklisted, Manager.ManualUnban otherwise
HandleManualUnban(ip) ==
    /\ validateIP(ip)
    /\ IF IsBlacklisted(ip)
       THEN /\ blacklist' = disableRow(blacklist, ip)
            /\ UNCHANGED <<stats, tree>>
       ELSE /\ tree' = Delete(tree, ip)
            /\ stats' = IF ip \in DOMAIN stats
                        THEN [stats EXCEPT ![ip] = clearBan(@)]
                        ELSE stats
            /\ UNCHANGED blacklist
    /\ last' = Call("HandleManualUnban", ip, TRUE, 0)
    /\ UNCHANGED <<cfg, addrs, now, whitelist, hist>>

\* BanManager.handleAddToWhitelist: DB.AddToWhitelist
handleAddToWhitelist(ip) ==
    /\ validateIP(ip)
    /\ whitelist' = insertRow(whitelist, ip)
    /\ last' = Call("handleAddToWhitelist", ip, TRUE, 0)
    /\ UNCHANGED <<cfg, addrs, now, stats, tree, blacklist, hist>>

\* BanManager.handleRemoveFromWhitelist: DB.RemoveFromWhitelist
handleRemoveFromWhitelist(ip) ==
    /\ validateIP(ip)
    /\ whitelist' = disableRow(whitelist, ip)
    /\ last' = Call("handleRemoveFromWhitelist", ip, TRUE, 0)
    /\ UNCHANGED <<cfg, addrs, now, stats, tree, blacklist, hist>>

\* the service with its database attached: the engine fed by the log reader
\* and queried by the adapters, and the admin API
NextLists ==
    /\ \/ Tick
       \/ RecordViolationStep
       \/ IsBannedStep
       \/ ManualBanStep
       \/ \E ip \in addrs : HandleManualBanPermanent(ip)
       \/ \E ip \in addrs : HandleManualUnban(ip)
       \/ \E ip \in addrs : handleAddToWhitelist(ip)
       \/ \E ip \in addrs : handleRemoveFromWhitelist(ip)
    /\ UNCHANGED <<serverVars, adapterVars, serviceVars>>

SpecLists == Init /\ [][NextLists]_vars

----------------------------------------------------------------------------
(* Claims *)

\* the terminal node of the address exists in the index and has banned = true
TerminalBanned(ip) ==
    LET path == BitPath(ipToBytes(ip))
    IN  /\ validateIP(ip)
        /\ path \in DOMAIN tree
        /\ tree[path].banned

\* C1: is_banned returns false for every address enabled in the whitelist,
\* whatever violations and manual bans were applied to it.
C1_WhitelistedNeverBanned ==
    (last.op = "IsBanned" /\ IsWhitelisted(last.ip)) => last.ret = FALSE

\* C2: is_banned returns true for every address enabled in the blacklist and
\* not whitelisted, also with no ledger entry or no running temporary ban.
C2_BlacklistedAlwaysBanned ==
    (last.op = "IsBanned" /\ IsBlacklisted(last.ip) /\ ~IsWhitelisted(last.ip))
        => last.ret = TRUE

\* C3: whenever is_banned(A) returns true, A is in the enabled blacklist, or
\* A has a ledger entry whose ban_expiry is later than now and the index
\* terminal of A has banned = true.
C3_BannedHasLedgerAndIndex ==
    (last.op = "IsBanned" /\ last.ret = TRUE) =>
        \/ IsBlacklisted(last.ip)
        \/ /\ last.ip \in DOMAIN stats
           /\ stats[last.ip].BanExpiry > now
           /\ TerminalBanned(last.ip)

\* an is_banned call has answered true
C3_Witness == last.op = "IsBanned" /\ last.ret = TRUE


----------------------------------------------------------------------------
(* Threshold and escalation *)

\* C4: starting from no ledger entry, while every record_violation since the
\* entry was created lies in one time_window (and no manual_ban touched the
\* entry), the first max_attempts-1 calls leave is_banned false, and the
\* max_attempts-th makes is_banned true with ban_count = 1 and ban_expiry in
\* the future
C4_BanAtMaxAttempts ==
    \A ip \in DOMAIN stats :
        LET calls == Len(SelectSeq(hist[ip].recorded,
                            LAMBDA v : v.Timestamp >= stats[ip].FirstSeen))
        IN  (/\ last.op = "RecordViolation"
             /\ last.ip = ip
             /\ hist[ip].manual = 0
             /\ After(stats[ip].FirstSeen, now - cfg.TimeWindow))
            => /\ calls < cfg.MaxAttempts
                    => ~IsBannedResult(ip) /\ stats[ip].BanCount = 0
               /\ calls = cfg.MaxAttempts
                    => /\ IsBannedResult(ip)
                       /\ stats[ip].BanCount = 1
                       /\ stats[ip].BanExpiry > now

\* the second of two violations, with max_attempts = 2, has just banned
C4_Witness ==
    /\ last.op = "RecordViolation"
    /\ last.ret = TRUE
    /\ cfg.MaxAttempts = 2
    /\ hist[last.ip].manual = 0
    /\ Len(stats[last.ip].Violations) = 2
    /\ stats[last.ip].BanCount = 1
    /\ IsBannedResult(last.ip)

C6_DocumentedDoubling ==
    cfg = DocConfig
    => \A ip \in addrs :
           LET b == hist[ip].bans
               capped(d) == IF d > cfg.MaxBanTime THEN cfg.MaxBanTime ELSE d
           IN  \A i \in 1..Len(b) :
                   b[i] = IF i = 1 THEN cfg.InitialBanTime
                          ELSE capped((b[i - 1] * cfg.FactorNum)
                                          \div cfg.FactorDen)

\* C7: while the ledger entry persists no violation-driven ban is longer than
\* max_ban_time, each is strictly longer than the previous one unless the
\* previous one already lasted max_ban_time, and the second is strictly
\* longer than the first when initial_ban_time * escalation_factor is below
\* max_ban_time
C7_EscalationUntilCap ==
    \A ip \in addrs :
        LET b == hist[ip].bans
        IN  /\ \A i \in 1..Len(b) : b[i] <= cfg.MaxBanTime
            /\ \A i \in 2..Len(b) :
                   b[i] > b[i - 1] \/ b[i - 1] = cfg.MaxBanTime
            /\ (/\ Len(b) >= 2
                /\ cfg.InitialBanTime * cfg.FactorNum
                       < cfg.MaxBanTime * cfg.FactorDen)
               => b[2] > b[1]

\* a second violation-driven ban longer than the first
C7_Witness ==
    \E ip \in addrs :
        /\ last.op = "RecordViolation"
        /\ last.ip = ip
        /\ Len(hist[ip].bans) >= 2
        /\ hist[ip].bans[2] > hist[ip].bans[1]

\* C7 as stated: the second ban is strictly longer than the first for every
\* valid ban config
C7_SecondAlwaysLonger ==
    \A ip \in addrs :
        Len(hist[ip].bans) >= 2 => hist[ip].bans[2] > hist[ip].bans[1]


----------------------------------------------------------------------------
(* Ban count and the violations of an entry *)

\* C8: the ban_count of a ledger entry equals the number of violation-driven
\* bans plus the number of manual_ban calls of the address since the entry
\* was created, and after a violation-driven ban ban_expiry - now is at most
\* max_ban_time, whatever manual_ban, manual_unban, purge and cleanup calls
\* are interleaved
C8_BanCountCountsBans ==
    \A ip \in DOMAIN stats :
        /\ stats[ip].BanCount = Len(hist[ip].bans) + hist[ip].manual
        /\ (last.op = "RecordViolation" /\ last.ip = ip /\ last.ret = TRUE)
           => stats[ip].BanExpiry - now <= cfg.MaxBanTime

\* a violation-driven ban of an entry that a manual_ban touched before
C8_Witness ==
    /\ last.op = "RecordViolation"
    /\ last.ret = TRUE
    /\ hist[last.ip].manual >= 1
    /\ stats[last.ip].BanCount = 2

\* C8 as stated: after the k-th threshold crossing ban_count equals k
C8_BanCountEqualsCrossings ==
    (last.op = "RecordViolation" /\ last.ret = TRUE)
    => /\ stats[last.ip].BanCount = hist[last.ip].crossings
       /\ stats[last.ip].BanExpiry - now <= cfg.MaxBanTime

\* C9: no operation decreases the ban_count of a ledger entry; the count is
\* lost only when cleanup evicts the entry
C9_BanCountNeverDecreases ==
    [][\A ip \in DOMAIN stats :
           IF ip \in DOMAIN stats'
           THEN stats'[ip].BanCount >= stats[ip].BanCount
           ELSE last'.op = "cleanup" /\ cleanupEvicts(stats[ip], now)]_vars

\* an unban or a purge has cleared the expiry of an entry that keeps its count
C9_Witness ==
    /\ last.op \in {"ManualUnban", "PurgeAllBans", "PurgeExpiredBans"}
    /\ \E ip \in DOMAIN stats :
           stats[ip].BanCount >= 1 /\ stats[ip].BanExpiry = ZeroTime

\* C10: immediately after record_violation the ledger entry exists, its
\* violations are exactly the violations recorded for the address since the
\* entry was created whose timestamp is later than now - time_window (the new
\* one included), and total_severity is the sum of their severities
C10_ViolationsSinceCreation ==
    last.op = "RecordViolation"
    => /\ last.ip \in DOMAIN stats
       /\ LET st == stats[last.ip]
              kept == SelectSeq(hist[last.ip].recorded,
                          LAMBDA v : v.Timestamp >= st.FirstSeen)
          IN  /\ st.Violations = kept
              /\ kept # <<>>
              /\ kept[Len(kept)].Timestamp = now
              /\ st.TotalSeverity = SumSeverity(kept)

\* a record_violation on an entry older than the time window: the violation
\* that created the entry is no longer among its violations
C10_Witness ==
    /\ last.op = "RecordViolation"
    /\ hist[last.ip].manual = 0
    /\ ~After(stats[last.ip].FirstSeen, now - cfg.TimeWindow)
    /\ Len(stats[last.ip].Violations) >= 1
    /\ stats[last.ip].Violations[1].Timestamp > stats[last.ip].FirstSeen

\* C10 as stated: the violations are all the violations recorded for the
\* address with timestamp later than now - time_window
C10_AllRecordedInWindow ==
    last.op = "RecordViolation"
    => /\ last.ip \in DOMAIN stats
       /\ stats[last.ip].Violations = hist[last.ip].recorded
       /\ stats[last.ip].TotalSeverity = SumSeverity(hist[last.ip].recorded)

----------------------------------------------------------------------------
(* Ageing of violations and of bans *)

\* C11: the violations of every ledger entry have a timestamp later than
\* now - time_window, also when time has advanced with no further
\* record_violation for the address: a read (is_banned) sweeps the stale ones
C11_ViolationsAlwaysInWindow ==
    (last.op = "IsBanned" /\ last.ip \in DOMAIN stats)
    => \A i \in 1..Len(stats[last.ip].Violations) :
           InWindow(stats[last.ip].Violations[i], now)

\* C12: a ban that is running (ban_expiry after now) ends after last_seen,
\* and right after a violation-driven ban last_seen = now < ban_expiry; an
\* expired ban_expiry that was not cleared may lie before last_seen
C12_RunningBanAfterLastSeen ==
    /\ \A ip \in DOMAIN stats :
           /\ stats[ip].LastSeen <= now
           /\ After(stats[ip].BanExpiry, now)
                  => stats[ip].BanExpiry > stats[ip].LastSeen
    /\ (last.op = "RecordViolation" /\ last.ret = TRUE)
       => /\ stats[last.ip].LastSeen = now
          /\ stats[last.ip].BanExpiry > stats[last.ip].LastSeen

\* a violation recorded during a running ban has moved last_seen
C12_Witness ==
    /\ last.op = "RecordViolation"
    /\ last.ret = FALSE
    /\ After(stats[last.ip].BanExpiry, now)
    /\ stats[last.ip].LastSeen = now
    /\ stats[last.ip].FirstSeen < now

\* C12 as stated: ban_expiry is the zero instant or >= last_seen
C12_ExpiryZeroOrAfterLastSeen ==
    \A ip \in DOMAIN stats :
        \/ stats[ip].BanExpiry = ZeroTime
        \/ stats[ip].BanExpiry >= stats[ip].LastSeen

\* C13: is_banned for an address whose ledger ban_expiry is not after now
\* returns false and leaves the terminal of the address with banned = false;
\* after a cleanup pass no entry with a past ban_expiry has a banned terminal
C13_ExpiredBanCleared ==
    /\ (/\ last.op = "IsBanned"
        /\ last.ip \in DOMAIN stats
        /\ ~After(stats[last.ip].BanExpiry, now))
       => last.ret = FALSE /\ ~TerminalBanned(last.ip)
    /\ last.op = "cleanup"
       => \A ip \in DOMAIN stats :
              Before(stats[ip].BanExpiry, now) => ~TerminalBanned(ip)

\* is_banned has answered for an entry whose ban ran out; its terminal is
\* still in the index, cleared
C13_Witness ==
    /\ last.op = "IsBanned"
    /\ last.ip \in DOMAIN stats
    /\ stats[last.ip].BanExpiry # ZeroTime
    /\ ~After(stats[last.ip].BanExpiry, now)
    /\ BitPath(ipToBytes(last.ip)) \in DOMAIN tree
    /\ tree[BitPath(ipToBytes(last.ip))].isEnd

\* C14: a cleanup pass performs purge_expired too: after the pass every
\* retained ledger entry whose ban had expired has ban_expiry = zero instant
C14_CleanupPurgesExpired ==
    last.op = "cleanup"
    => \A ip \in DOMAIN stats :
           Before(stats[ip].BanExpiry, now) => stats[ip].BanExpiry = ZeroTime

----------------------------------------------------------------------------
(* Manual operations *)

\* C16: is_banned(A) called immediately after manual_unban(A) returns false,
\* whatever the state of A was before (banned by violations, banned manually,
\* never seen)
C16_UnbannedNotBanned ==
    last.op = "ManualUnban" => ~IsBannedResult(last.ip)

\* manual_unban has cleared the ban of an entry that had been banned: the
\* entry keeps its ban count, its terminal is in the index with banned = false
C16_Witness ==
    /\ last.op = "ManualUnban"
    /\ last.ip \in DOMAIN stats
    /\ stats[last.ip].BanCount >= 1
    /\ stats[last.ip].BanExpiry = ZeroTime
    /\ BitPath(ipToBytes(last.ip)) \in DOMAIN tree
    /\ ~tree[BitPath(ipToBytes(last.ip))].banned

\* C17: after a successful POST /api/unban for an address, the address is
\* neither in the enabled blacklist nor temporarily banned, also when it was
\* in both before the request
C17_UnbanClearsBoth ==
    (last.op = "HandleManualUnban" /\ last.ret = TRUE)
    => ~IsBlacklisted(last.ip) /\ ~IsBannedResult(last.ip)

C19_PurgeAllClearsBans ==
    [][last'.op = "PurgeAllBans"
       => /\ GetAllBannedIPs' = {}
          /\ \A ip \in addrs :
                 ~(/\ ip \in DOMAIN stats'
                   /\ After(stats'[ip].BanExpiry, now')
                   /\ Search(tree', ip))
          /\ last'.count =
                 Cardinality({ip \in DOMAIN stats :
                                 stats[ip].BanExpiry # ZeroTime})
          /\ DOMAIN stats' = DOMAIN stats
          /\ \A ip \in DOMAIN stats :
                 /\ stats'[ip].Violations = stats[ip].Violations
                 /\ stats'[ip].TotalSeverity = stats[ip].TotalSeverity
                 /\ stats'[ip].BanCount = stats[ip].BanCount
                 /\ stats'[ip].BanExpiry = ZeroTime]_vars

\* a purge has cleared the ban of an entry that keeps its violations and its
\* ban count
C19_Witness ==
    /\ last.op = "PurgeAllBans"
    /\ last.count >= 1
    /\ \E ip \in DOMAIN stats :
           /\ stats[ip].BanCount >= 1
           /\ stats[ip].Violations # <<>>
           /\ stats[ip].LastSeen = now
    /\ GetAllBannedIPs = {}

----------------------------------------------------------------------------
(* The RadixTree on its own: Insert, Search and Delete called directly, as  *)
(* TestRadixTreeOperations and TestRadixTreeInvalidIP do, with every         *)
(* address string of the model                                               *)

\* NewRadixTree()
InitTree ==
    /\ cfg = DocConfig
    /\ addrs = AllAddrs
    /\ now = StartTime
    /\ stats = << >>
    /\ tree = NewRadixTree
    /\ blacklist = [ip \in addrs |-> "absent"]
    /\ whitelist = [ip \in addrs |-> "absent"]
    /\ last = Call("NewRadixTree", "", FALSE, 0)
    /\ hist = [ip \in addrs |-> NoHistory]
    /\ mutex = Unlocked
    /\ procs = [g \in Goroutines |-> Idle]
    /\ NoServers

\* rt.Insert(ip)
TreeInsert(ip) ==
    /\ tree' = Insert(tree, ip)
    /\ last' = Call("Insert", ip, FALSE, 0)
    /\ hist' = [hist EXCEPT ![ip].inserted = TRUE]
    /\ UNCHANGED <<cfg, addrs, now, stats, blacklist, whitelist>>

\* rt.Search(ip)
TreeSearch(ip) ==
    /\ last' = Call("Search", ip, Search(tree, ip), 0)
    /\ UNCHANGED <<cfg, addrs, now, stats, tree, blacklist, whitelist, hist>>

\* rt.Delete(ip)
TreeDelete(ip) ==
    /\ tree' = Delete(tree, ip)
    /\ last' = Call("Delete", ip, FALSE, 0)
    /\ UNCHANGED <<cfg, addrs, now, stats, blacklist, whitelist, hist>>

NextTree ==
    /\ \/ \E ip \in addrs : TreeInsert(ip)
       \/ \E ip \in addrs : TreeSearch(ip)
       \/ \E ip \in addrs : TreeDelete(ip)
    /\ UNCHANGED <<serverVars, adapterVars, serviceVars>>

SpecTree == InitTree /\ [][NextTree]_vars

\* C20: for valid v4 and v6 addresses Search(A) is true after Insert(A) and
\* false after Delete(A) (so after Insert(A) then Delete(A)); Search(B) is
\* false for every B whose binary form was never inserted, whatever else was
\* inserted or deleted; Search changes nothing; and Insert, Search and Delete
\* on a malformed address change nothing, Search reporting false
C20_RadixTreeOperations ==
    [][/\ (last'.op = "Insert" /\ validateIP(last'.ip))
          => Search(tree', last'.ip)
       /\ last'.op = "Delete" => ~Search(tree', last'.ip)
       /\ last'.op = "Search"
          => tree' = tree /\ last'.ret = Search(tree, last'.ip)
       /\ \A b \in addrs :
              Search(tree', b)
                  => \E a \in addrs : /\ hist'[a].inserted
                                      /\ ipToBytes(a) = ipToBytes(b)
       /\ (last'.op \in {"Insert", "Search", "Delete"} /\ ~validateIP(last'.ip))
          => tree' = tree /\ last'.ret = FALSE]_vars

\* the IPv6 address whose first octets are those of the IPv4 address was
\* inserted and is found, the IPv4 address was inserted and deleted and is
\* not found, the other IPv4 address was never inserted
C20_Witness ==
    /\ last.op = "Search"
    /\ last.ip = V4
    /\ last.ret = FALSE
    /\ Search(tree, V6)
    /\ hist[V4].inserted
    /\ ~hist[V4Mapped].inserted
    /\ ~hist[V4Other].inserted
    /\ hist[Malformed].inserted

----------------------------------------------------------------------------
(* Goroutines calling RecordViolation and IsBanned at the same time, as in  *)
(* TestConcurrentAccess.  A step is what a goroutine does between two       *)
(* points where another goroutine can run and see a difference: the call,   *)
(* taking the lock, and the section under the lock up to the return.        *)

\* two addresses with different binary forms
ConcurrentAddrs == {V4, V4Other}

\* the manager of TestConcurrentAccess: every goroutine uses the same address
InitConcurrent ==
    /\ cfg \in BanConfigs
    /\ addrs = {V4}
    /\ now = StartTime
    /\ stats = << >>
    /\ tree = NewRadixTree
    /\ blacklist = [ip \in addrs |-> "absent"]
    /\ whitelist = [ip \in addrs |-> "absent"]
    /\ last = Call("NewManager", "", FALSE, 0)
    /\ hist = [ip \in addrs |-> NoHistory]
    /\ mutex = Unlocked
    /\ procs = [g \in Goroutines |-> Idle]
    /\ NoServers

\* a manager whose callers report violations of two addresses
InitWriters ==
    /\ cfg \in BanConfigs
    /\ addrs = ConcurrentAddrs
    /\ now = StartTime
    /\ stats = << >>
    /\ tree = NewRadixTree
    /\ blacklist = [ip \in addrs |-> "absent"]
    /\ whitelist = [ip \in addrs |-> "absent"]
    /\ last = Call("NewManager", "", FALSE, 0)
    /\ hist = [ip \in addrs |-> NoHistory]
    /\ mutex = Unlocked
    /\ procs = [g \in Goroutines |-> Idle]
    /\ NoServers

\* manager.RecordViolation(ip, severity, description) up to m.mutex.Lock(),
\* which waits until no goroutine holds the lock in either mode
Lock(g, ip, severity, description) ==
    /\ procs[g].pc = "idle"
    /\ validateIP(ip)
    /\ mutex = Unlocked
    /\ mutex' = [mutex EXCEPT !.writer = g]
    /\ procs' = [procs EXCEPT ![g] =
                    [pc |-> "body", op |-> "RecordViolation", ip |-> ip,
                     severity |-> severity, description |-> description]]
    /\ UNCHANGED <<cfg, addrs, now, stats, tree, blacklist, whitelist, last,
                   hist>>

\* the body of RecordViolation and the deferred m.mutex.Unlock()
returnRecordViolation(g) ==
    /\ procs[g].pc = "body"
    /\ RecordViolation(procs[g].ip, procs[g].severity, procs[g].description)
    /\ mutex' = Unlocked
    /\ procs' = [procs EXCEPT ![g] = Idle]

\* manager.IsBanned(ip) up to m.mutex.RLock(), which waits while a goroutine
\* holds Lock, then stats, exists := m.stats[ip] and
\* stats.BanExpiry.After(time.Now())
RLock(g, ip) ==
    /\ procs[g].pc = "idle"
    /\ mutex.writer = 0
    /\ mutex' = [mutex EXCEPT !.readers = @ \cup {g}]
    /\ procs' = [procs EXCEPT ![g] =
                    [Idle EXCEPT !.op = "IsBanned", !.ip = ip,
                                 !.pc = IF ip \notin DOMAIN stats THEN "return"
                                        ELSE IF After(stats[ip].BanExpiry, now)
                                             THEN "search"
                                             ELSE "delete"]]
    /\ UNCHANGED <<cfg, addrs, now, stats, tree, blacklist, whitelist, last,
                   hist>>

\* the rest of IsBanned: return false, return m.tree.Search(ip), or
\* m.tree.Delete(ip) and return false; then the deferred m.mutex.RUnlock().
\* The goroutine holds RLock only, other readers may hold it too.
returnIsBanned(g) ==
    /\ procs[g].pc \in {"return", "search", "delete"}
    /\ tree' = IF procs[g].pc = "delete" THEN Delete(tree, procs[g].ip)
               ELSE tree
    /\ last' = Call("IsBanned", procs[g].ip,
                    procs[g].pc = "search" /\ Search(tree, procs[g].ip), 0)
    /\ mutex' = [mutex EXCEPT !.readers = @ \ {g}]
    /\ procs' = [procs EXCEPT ![g] = Idle]
    /\ UNCHANGED <<cfg, addrs, now, stats, blacklist, whitelist, hist>>

NextConcurrent ==
    /\ \/ Tick /\ UNCHANGED serverVars
       \/ \E g \in Goroutines, ip \in addrs, severity \in Severities,
             description \in Descriptions :
              Lock(g, ip, severity, description)
       \/ \E g \in Goroutines : returnRecordViolation(g)
       \/ \E g \in Goroutines, ip \in addrs : RLock(g, ip)
       \/ \E g \in Goroutines : returnIsBanned(g)
    /\ UNCHANGED <<adapterVars, serviceVars>>

SpecConcurrent == InitConcurrent /\ [][NextConcurrent]_vars

\* goroutines that only call RecordViolation
NextWriters ==
    /\ \/ Tick /\ UNCHANGED serverVars
       \/ \E g \in Goroutines, ip \in addrs, severity \in Severities,
             description \in Descriptions :
              Lock(g, ip, severity, description)
       \/ \E g \in Goroutines : returnRecordViolation(g)
    /\ UNCHANGED <<adapterVars, serviceVars>>

SpecWriters == InitWriters /\ [][NextWriters]_vars

----------------------------------------------------------------------------
\* C21: concurrent RecordViolation calls on distinct addresses are
\* independent.  A goroutine inside the body of RecordViolation holds the
\* lock alone, so the bodies run one after the other in some order; and in
\* every reachable state, for any two addresses with different binary forms,
\* running the two bodies in one order leaves the same ledger and the same
\* index as running them in the other order.
C21_DistinctAddressesCommute ==
    /\ \A g \in Goroutines :
           procs[g].pc = "body" =>
               /\ mutex = [writer |-> g, readers |-> {}]
               /\ \A h \in Goroutines \ {g} : procs[h].pc = "idle"
    /\ \A a \in addrs, b \in addrs, sa \in Severities, sb \in Severities,
          da \in Descriptions, db \in Descriptions :
           (validateIP(a) /\ validateIP(b) /\ ipToBytes(a) # ipToBytes(b)) =>
               LET ra  == recordViolation(stats, tree, a, sa, da, now)
                   rab == recordViolation(ra.stats, ra.tree, b, sb, db, now)
                   rb  == recordViolation(stats, tree, b, sb, db, now)
                   rba == recordViolation(rb.stats, rb.tree, a, sa, da, now)
               IN  /\ rab.stats = rba.stats
                   /\ rab.tree = rba.tree

\* a goroutine is in the body of RecordViolation for one address right after
\* a RecordViolation for the other address returned with a ban, and the call
\* in progress is going to ban too
C21_Witness ==
    \E g \in Goroutines :
        /\ procs[g].pc = "body"
        /\ last.op = "RecordViolation"
        /\ last.ret
        /\ last.ip # procs[g].ip
        /\ Search(tree, last.ip)
        /\ procs[g].ip \in DOMAIN stats
        /\ recordViolation(stats, tree, procs[g].ip, procs[g].severity,
                           procs[g].description, now).ban

----------------------------------------------------------------------------
----------------------------------------------------------------------------
(* The adapters: spoa.Server, envoy.Server, nginx.Server.  Each extracts an *)
(* address string from a request and asks Manager.IsBanned about it.        *)

\* strings a request can carry besides the addresses: white space only, and
\* an address with white space around it
Blank == " "
Padded == " 10.0.0.1 "

\* strings.TrimSpace
TrimSpace(s) == IF s = Blank THEN "" ELSE IF s = Padded THEN V4 ELSE s

\* what an adapter does with a request: whether it calls IsBanned, with which
\* string, and what it answers
NoLookup(response) == [lookup |-> FALSE, ip |-> "", response |-> response]
Lookup(ip, banned, allowed) ==
    [lookup |-> TRUE, ip |-> ip,
     response |-> IF IsBannedResult(ip) THEN banned ELSE allowed]

(* spoa.Server *)

\* cfg.SPOA
SPOAConfig == [MaxClients |-> 1, ReadTimeout |-> 2]

\* a token of strings.Fields(message): whether strings.HasPrefix(part,
\* "src=") holds, and the token without that prefix
Word(w) == [prefix |-> "", rest |-> w]
Src(ip) == [prefix |-> "src=", rest |-> ip]

\* first tokens, and the tokens that follow
SPOACommands ==
    {Word("haproxy_processing"), Word("notify"), Word("unknown_command")}
SPOAParams == {Word("dest=10.0.0.2"), Src(V4)}

\* the lines a client sends, as their tokens; the empty sequence is a line
\* that is blank after strings.TrimSpace
SPOALines ==
    {<<>>} \cup
    UNION {{<<c>> \o ps : c \in SPOACommands, ps \in [1..n -> SPOAParams]} :
               n \in 0..(MaxTokens - 1)}

\* for _, part := range parts { if strings.HasPrefix(part, "src=") ...: the
\* position of the first such token from i on, 0 if there is none
RECURSIVE firstSrc(_, _)
firstSrc(parts, i) ==
    IF i > Len(parts) THEN 0
    ELSE IF parts[i].prefix = "src=" THEN i
    ELSE firstSrc(parts, i + 1)

\* a handler that asks the Manager and answers banned=0 whatever it says
handleHAProxyProcessing_NeverBanned(parts) ==
    LET i == firstSrc(parts, 1)
    IN  IF i = 0 THEN NoLookup("banned=0")
        ELSE Lookup(parts[i].rest, "banned=0", "banned=0")

\* spoa.Server.handleHAProxyProcessing
handleHAProxyProcessing(parts) ==
    LET i == firstSrc(parts, 1)
    IN  IF i = 0 THEN NoLookup("banned=0")
        ELSE Lookup(parts[i].rest, "banned=1", "banned=0")

\* spoa.Server.handleNotify
handleNotify(parts) == NoLookup("")

\* spoa.Server.processMessage; the response "" is not written to the client
spoaProcessMessage(parts) ==
    IF Len(parts) < 2 THEN NoLookup("")
    ELSE IF parts[1] = Word("haproxy_processing")
         THEN handleHAProxyProcessing(Tail(parts))
    ELSE IF parts[1] = Word("notify") THEN handleNotify(Tail(parts))
    ELSE NoLookup("")

(* envoy.Server *)

\* a value of the headers map of the CheckRequest, or its absence
Header(v) == [exists |-> TRUE, value |-> v]
NoHeader == [exists |-> FALSE, value |-> ""]

\* x-forwarded-for: the value is kept as strings.Split(xff, ",") returns it,
\* the elements with their white space
XFF(elements) == [exists |-> TRUE, value |-> elements]
NoXFF == [exists |-> FALSE, value |-> <<"">>]

\* Attributes.Source / Attributes.Destination down to GetSocketAddress(), or
\* a nil on the way
Socket(address) == [exists |-> TRUE, address |-> address]
NoSocket == [exists |-> FALSE, address |-> ""]

\* http: Attributes.Request.Http is not nil
EnvoyRequests ==
    [http : {TRUE},
     xff : {NoXFF, XFF(<<Blank, V4>>), XFF(<<Padded, Malformed>>)},
     realIP : {NoHeader, Header(""), Header(Padded)},
     source : {NoSocket, Socket(""), Socket(V4)},
     destination : {NoSocket, Socket(V4)}]
    \cup
    [http : {FALSE},
     xff : {XFF(<<Padded, Malformed>>)},
     realIP : {Header(Padded)},
     source : {NoSocket, Socket(""), Socket(V4)},
     destination : {NoSocket, Socket(V4)}]

\* envoy.Server.extractClientIP
envoyExtractClientIP(req) ==
    IF req.http /\ req.xff.exists THEN TrimSpace(Head(req.xff.value))
    ELSE IF req.http /\ req.realIP.exists THEN TrimSpace(req.realIP.value)
    ELSE IF req.source.exists THEN req.source.address
    ELSE IF req.destination.exists THEN req.destination.address
    ELSE ""

\* envoy.Server.Check with allowResponse and denyResponse
Check(req) ==
    LET clientIP == envoyExtractClientIP(req)
    IN  IF clientIP = "" THEN NoLookup("OK")
        ELSE Lookup(clientIP, "PERMISSION_DENIED", "OK")

(* nginx.Server *)

\* http.Request.RemoteAddr: "" is the record with two empty fields, and an
\* address without a port has port ""
RemoteAddr(host, port) == [host |-> host, port |-> port]

\* r.Header.Get returns "" for a header the request does not carry;
\* xff is the value as strings.Split(xff, ",") returns it, <<"">> for ""
NginxRequests ==
    [originalIP : {"", V4},
     xff : {<<"">>, <<"", V4>>, <<Malformed, V4>>},
     realIP : {"", Malformed},
     clientIP : {"", V4},
     cfIP : {"", Malformed},
     remoteAddr : {RemoteAddr("", ""), RemoteAddr(V4, ""),
                   RemoteAddr(V4, "1234")}]

\* nginx.Server.extractClientIP; net.SplitHostPort fails on an address
\* without a port and the whole string is used
nginxExtractClientIP(r) ==
    IF r.originalIP # "" THEN TrimSpace(r.originalIP)
    ELSE IF r.xff # <<"">> THEN TrimSpace(Head(r.xff))
    ELSE IF r.realIP # "" THEN TrimSpace(r.realIP)
    ELSE IF r.clientIP # "" THEN TrimSpace(r.clientIP)
    ELSE IF r.cfIP # "" THEN TrimSpace(r.cfIP)
    ELSE IF r.remoteAddr # RemoteAddr("", "")
         THEN TrimSpace(r.remoteAddr.host)
    ELSE ""

\* nginx.Server.allowResponse
allowResponse(clientIP) ==
    [status |-> 200,
     headers |-> ("X-Fail2ban-Status" :> "allowed")
                 @@ ("X-Fail2ban-IP" :> clientIP)
                 @@ ("X-Fail2ban-Service" :> "fail2ban-nginx-auth")]

\* nginx.Server.denyResponse
denyResponse(clientIP, reason) ==
    [status |-> 403,
     headers |-> ("X-Fail2ban-Status" :> "denied")
                 @@ ("X-Fail2ban-IP" :> clientIP)
                 @@ ("X-Fail2ban-Reason" :> reason)
                 @@ ("X-Fail2ban-Service" :> "fail2ban-nginx-auth")]

\* nginx.Server.handleAuthRequest
handleAuthRequest(r) ==
    LET clientIP == nginxExtractClientIP(r)
    IN  IF clientIP = "" THEN NoLookup(allowResponse("unknown-ip"))
        ELSE Lookup(clientIP,
                    denyResponse(clientIP,
                                 "IP banned due to suspicious activity"),
                    allowResponse(clientIP))

(* the servers at work *)

\* the three servers in front of one Manager, a client connected to the SPOA
\* server
InitAdapters ==
    /\ cfg = ShortConfig
    /\ addrs = {V4, Malformed}
    /\ now = StartTime
    /\ stats = << >>
    /\ tree = NewRadixTree
    /\ blacklist = [ip \in addrs |-> "absent"]
    /\ whitelist = [ip \in addrs |-> "absent"]
    /\ last = Call("NewManager", "", FALSE, 0)
    /\ hist = [ip \in addrs |-> NoHistory]
    /\ mutex = Unlocked
    /\ procs = [g \in Goroutines |-> Idle]
    /\ reply = NoReply
    /\ clients = 1
    /\ syslogPatterns = <<>>
    /\ patterns = <<>>
    /\ NoService

\* the SPOA server before any client has connected
InitSPOA ==
    /\ cfg = ShortConfig
    /\ addrs = {V4, Malformed}
    /\ now = StartTime
    /\ stats = << >>
    /\ tree = NewRadixTree
    /\ blacklist = [ip \in addrs |-> "absent"]
    /\ whitelist = [ip \in addrs |-> "absent"]
    /\ last = Call("NewManager", "", FALSE, 0)
    /\ hist = [ip \in addrs |-> NoHistory]
    /\ mutex = Unlocked
    /\ procs = [g \in Goroutines |-> Idle]
    /\ NoServers

\* the adapter has answered the request (kept for the SPOA lines only):
\* the IsBanned it made, if any, has run and returned banned
Answer(adapter, request, r) ==
    /\ reply' = [adapter |-> adapter, request |-> request,
                 lookup |-> r.lookup, subject |-> r.ip,
                 banned |-> r.lookup /\ IsBannedResult(r.ip),
                 response |-> r.response]
    /\ tree' = IF r.lookup THEN IsBannedTree(r.ip) ELSE tree
    /\ last' = IF r.lookup
               THEN Call("IsBanned", r.ip, IsBannedResult(r.ip), 0)
               ELSE last
    /\ UNCHANGED <<cfg, addrs, now, stats, blacklist, whitelist, hist,
                   mutex, procs, clients, syslogPatterns, patterns,
                   serviceVars>>

\* spoa.Server.Start: listener.Accept, s.clients.Add(1), go s.handleClient
Accept ==
    /\ clients < MaxConnections
    /\ clients' = clients + 1
    /\ UNCHANGED <<cfg, addrs, now, stats, tree, blacklist, whitelist, last,
                   hist, mutex, procs, reply, syslogPatterns, patterns,
                   serviceVars>>

\* spoa.Server.handleClient, one line of a connected client
handleClient(parts) ==
    /\ clients > 0
    /\ Answer("spoa", parts, spoaProcessMessage(parts))

\* spoa.Server.handleClient returns (end of input or read deadline):
\* conn.Close and s.clients.Done
Done ==
    /\ clients > 0
    /\ clients' = clients - 1
    /\ UNCHANGED <<cfg, addrs, now, stats, tree, blacklist, whitelist, last,
                   hist, mutex, procs, reply, syslogPatterns, patterns,
                   serviceVars>>

\* a Check request served by envoy.Server
EnvoyCheck(req) == Answer("envoy", <<>>, Check(req))

\* a request to /auth served by nginx.Server
NginxAuth(r) == Answer("nginx", <<>>, handleAuthRequest(r))

NextAdapters ==
    \/ /\ \/ Tick
          \/ RecordViolationStep
       /\ UNCHANGED <<serverVars, adapterVars, serviceVars>>
    \/ \E parts \in SPOALines : handleClient(parts)
    \/ \E req \in EnvoyRequests : EnvoyCheck(req)
    \/ \E r \in NginxRequests : NginxAuth(r)

SpecAdapters == InitAdapters /\ [][NextAdapters]_vars

\* the SPOA server and its clients
NextSPOA ==
    \/ /\ \/ Tick
          \/ RecordViolationStep
       /\ UNCHANGED <<serverVars, adapterVars, serviceVars>>
    \/ Accept
    \/ \E parts \in SPOALines : handleClient(parts)
    \/ Done

SpecSPOA == InitSPOA /\ [][NextSPOA]_vars

----------------------------------------------------------------------------
\* the requests that carry the address string a and nothing else, for each
\* adapter and each place it reads an address from
SPOACarriers(a) ==
    {<<Word("haproxy_processing"), Src(a)>>,
     <<Word("haproxy_processing"), Word("dest=10.0.0.2"), Src(a)>>}

EnvoyCarriers(a) ==
    LET none == [http |-> TRUE, xff |-> NoXFF, realIP |-> NoHeader,
                 source |-> NoSocket, destination |-> NoSocket]
    IN  {[none EXCEPT !.xff = XFF(<<a, Malformed>>)],
         [none EXCEPT !.realIP = Header(a)],
         [none EXCEPT !.source = Socket(a)],
         [none EXCEPT !.http = FALSE, !.destination = Socket(a)]}

NginxCarriers(a) ==
    LET none == [originalIP |-> "", xff |-> <<"">>, realIP |-> "",
                 clientIP |-> "", cfIP |-> "",
                 remoteAddr |-> RemoteAddr("", "")]
    IN  {[none EXCEPT !.originalIP = a],
         [none EXCEPT !.xff = <<a, Malformed>>],
         [none EXCEPT !.realIP = a],
         [none EXCEPT !.clientIP = a],
         [none EXCEPT !.cfIP = a],
         [none EXCEPT !.remoteAddr = RemoteAddr(a, "1234")],
         [none EXCEPT !.remoteAddr = RemoteAddr(a, "")]}

\* C23: for the same address string and the same engine state the three
\* adapters give the same decision.  For every address string (valid or not,
\* in any spelling) and every way each adapter can be handed it, the adapter
\* asks IsBanned about exactly that string, and SPOA answers banned=1 exactly
\* when Envoy answers PERMISSION_DENIED and exactly when Nginx answers 403.
C23_AdaptersAgree ==
    \A a \in AllAddrs :
        \A l \in SPOACarriers(a), e \in EnvoyCarriers(a),
           n \in NginxCarriers(a) :
            LET s  == spoaProcessMessage(l)
                ec == Check(e)
                na == handleAuthRequest(n)
            IN  /\ s.lookup /\ ec.lookup /\ na.lookup
                /\ s.ip = a /\ ec.ip = a /\ na.ip = a
                /\ s.response \in {"banned=0", "banned=1"}
                /\ ec.response \in {"OK", "PERMISSION_DENIED"}
                /\ na.response.status \in {200, 403}
                /\ (s.response = "banned=1")
                       <=> (ec.response = "PERMISSION_DENIED")
                /\ (s.response = "banned=1") <=> (na.response.status = 403)

\* the SPOA server has answered banned=1 for an address banned by
\* RecordViolation
C23_Witness ==
    /\ reply.adapter = "spoa"
    /\ reply.response = "banned=1"
    /\ reply.subject = V4
    /\ Len(hist[V4].bans) > 0
    /\ Check([http |-> TRUE, xff |-> NoXFF, realIP |-> Header(V4),
              source |-> NoSocket, destination |-> NoSocket]).response
           = "PERMISSION_DENIED"

\* C24: for every non-blank line whose first token is haproxy_processing
\* the SPOA server sends exactly one reply, banned=1 when the first src=
\* token names a banned address and banned=0 otherwise, including when the
\* line has no src= token or no further token at all; for a line whose first
\* token is notify or anything else it sends no reply
C24_EveryQueryAnswered ==
    (reply.adapter = "spoa" /\ reply.request # <<>>) =>
        LET line == reply.request
            i == firstSrc(Tail(line), 1)
        IN  /\ reply.lookup <=> (line[1] = Word("haproxy_processing") /\ i # 0)
            /\ reply.lookup => reply.subject = Tail(line)[i].rest
            /\ reply.response =
                   IF line[1] # Word("haproxy_processing") THEN ""
                   ELSE IF reply.banned THEN "banned=1"
                   ELSE "banned=0"

\* C25: the SPOA server never handles more than max_clients client
\* connections at the same time
C25_AtMostMaxClients == clients <= SPOAConfig.MaxClients

\* the first non-empty string of a sequence, "" if there is none
RECURSIVE FirstNonEmpty(_)
FirstNonEmpty(seq) ==
    IF seq = <<>> THEN ""
    ELSE IF Head(seq) # "" THEN Head(seq)
    ELSE FirstNonEmpty(Tail(seq))

\* the address each of the four places of a Check request yields, in the
\* order of precedence ("" when the place is absent or holds no address)
EnvoySources(req) ==
    <<IF req.http /\ req.xff.exists
      THEN TrimSpace(Head(req.xff.value)) ELSE "",
      IF req.http /\ req.realIP.exists
      THEN TrimSpace(req.realIP.value) ELSE "",
      IF req.source.exists THEN req.source.address ELSE "",
      IF req.destination.exists THEN req.destination.address ELSE "">>

\* C26: Envoy Check takes the subject from the first of x-forwarded-for
\* (first element, trimmed), x-real-ip, source socket address, destination
\* socket address that yields a non-empty address, and responds
\* PERMISSION_DENIED iff that address is banned; it responds OK without a
\* ban lookup only when none of the four yields an address
C26_EnvoyFirstAddressDecides ==
    \A req \in EnvoyRequests :
        LET subject == FirstNonEmpty(EnvoySources(req))
            c == Check(req)
        IN  /\ c.lookup <=> subject # ""
            /\ c.lookup => c.ip = subject
            /\ (c.response = "PERMISSION_DENIED")
                   <=> (subject # "" /\ IsBannedResult(subject))
            /\ c.response \in {"OK", "PERMISSION_DENIED"}

\* the address each of the six places of a request to /auth yields, in the
\* order of precedence
NginxSources(r) ==
    <<TrimSpace(r.originalIP), TrimSpace(Head(r.xff)), TrimSpace(r.realIP),
      TrimSpace(r.clientIP), TrimSpace(r.cfIP), TrimSpace(r.remoteAddr.host)>>

\* C27: Nginx /auth takes the subject from the first of X-Original-IP,
\* X-Forwarded-For (first element), X-Real-IP, X-Client-IP, CF-Connecting-IP,
\* remote address that yields a non-empty address; it answers 403 with
\* X-Fail2ban-Status: denied iff that address is banned and 200 with
\* X-Fail2ban-Status: allowed otherwise, and every response carries
\* X-Fail2ban-Service: fail2ban-nginx-auth
C27_NginxFirstAddressDecides ==
    \A r \in NginxRequests :
        LET subject == FirstNonEmpty(NginxSources(r))
            a == handleAuthRequest(r)
            banned == subject # "" /\ IsBannedResult(subject)
        IN  /\ a.lookup => a.ip = subject
            /\ a.response.status = IF banned THEN 403 ELSE 200
            /\ a.response.headers["X-Fail2ban-Status"] =
                   IF banned THEN "denied" ELSE "allowed"
            /\ a.response.headers["X-Fail2ban-Service"] = "fail2ban-nginx-auth"

----------------------------------------------------------------------------
\* C28: for both persistent lists, after an add that is reported as success
\* (the 'already present' outcome included) the membership test for the
\* address is true, and after a remove it is false; in particular remove
\* followed by add makes the address a member again
C28_AddThenMember ==
    /\ (last.op = "HandleManualBan" /\ last.ret) => IsBlacklisted(last.ip)
    /\ (last.op = "handleAddToWhitelist" /\ last.ret)
           => IsWhitelisted(last.ip)
    /\ (last.op = "HandleManualUnban" /\ last.ret)
           => ~IsBlacklisted(last.ip)
    /\ (last.op = "handleRemoveFromWhitelist" /\ last.ret)
           => ~IsWhitelisted(last.ip)

----------------------------------------------------------------------------
(* syslog.Reader: the rules compiled by NewReader, and processMessage       *)

\* PatternConfig.Regex is chosen by the operator. Regular expressions are
\* known by their text; the group of the first two takes any text (the
\* rules shipped in the example configurations take digits and dots only),
\* and the last one does not compile
RipRegex == "auth failed.*rip=(.*)"
ClientRegex == "authentication failed.*client=(.*)"
UnclosedRegex == "[unclosed"

\* regexp.Compile returns no error
Compiles(regex) == regex # UnclosedRegex

\* config.PatternConfig
Dovecot ==
    [Name |-> "dovecot-auth-failure", Regex |-> RipRegex, IPGroup |-> 1,
     Severity |-> 3, Description |-> "Dovecot authentication failure"]
Postfix ==
    [Name |-> "postfix-auth-failure", Regex |-> ClientRegex, IPGroup |-> 1,
     Severity |-> 2, Description |-> "Postfix authentication failure"]
InvalidPattern ==
    [Name |-> "invalid-pattern", Regex |-> UnclosedRegex, IPGroup |-> 1,
     Severity |-> 1, Description |-> "Invalid regex pattern"]
\* a rule whose ip_group is not a group of its regex
NoSuchGroup ==
    [Name |-> "no-such-group", Regex |-> RipRegex, IPGroup |-> 2,
     Severity |-> 1, Description |-> "No such group"]

\* the values of cfg.Syslog.Patterns: no rule, valid rules in both orders,
\* a rule that does not compile before, between and after valid ones, and a
\* rule whose group does not exist
PatternLists ==
    {<<>>,
     <<Dovecot, Postfix>>,
     <<Postfix, Dovecot>>,
     <<InvalidPattern, Dovecot>>,
     <<Dovecot, InvalidPattern, Postfix>>,
     <<Postfix, InvalidPattern>>,
     <<NoSuchGroup, Postfix>>,
     <<InvalidPattern>>}

\* what regex.FindStringSubmatch returns: nil, or the whole match followed
\* by the text of group 1
NoMatch == <<>>
Match(group) == <<"match", group>>

\* a log line, known by what each regex finds in it
Line(rip, client) == (RipRegex :> rip) @@ (ClientRegex :> client)

Messages ==
    {Line(NoMatch, NoMatch), Line(Match(V4), NoMatch),
     Line(Match(Malformed), NoMatch), Line(NoMatch, Match(Padded)),
     Line(Match(V4), Match(V4)), Line(Match(V4), Match(Malformed))}

\* pattern.regex.FindStringSubmatch(message)
FindStringSubmatch(regex, message) == message[regex]

\* syslog.Reader.isValidIP: net.ParseIP(ip) != nil
isValidIP(ip) == ipToBytes(ip) # <<>>

\* &compiledPattern{...}
compiledPattern(pattern) ==
    [name |-> pattern.Name, regex |-> pattern.Regex,
     ipGroup |-> pattern.IPGroup, severity |-> pattern.Severity,
     description |-> pattern.Description]

\* a loader that gives up at the first rule that does not compile
RECURSIVE NewReader_StopsAtInvalid(_)
NewReader_StopsAtInvalid(pats) ==
    IF pats = <<>> THEN <<>>
    ELSE IF ~Compiles(Head(pats).Regex) THEN <<>>
    ELSE <<compiledPattern(Head(pats))>> \o NewReader_StopsAtInvalid(Tail(pats))

\* syslog.NewReader: reader.patterns
RECURSIVE NewReader(_)
NewReader(pats) ==
    IF pats = <<>> THEN <<>>
    ELSE IF ~Compiles(Head(pats).Regex) THEN NewReader(Tail(pats))
    ELSE <<compiledPattern(Head(pats))>> \o NewReader(Tail(pats))

\* the Manager before a line is processed, no call made yet
NoCalls ==
    [stats |-> stats, tree |-> tree, hist |-> hist, calls |-> <<>>,
     ok |-> TRUE]

\* one turn of the loop of processMessage for the rule pattern, on the
\* Manager acc the turns before have left: acc.calls are the RecordViolation
\* calls made so far, acc.ok tells that they stay within the bounds
processPattern(pattern, message, acc) ==
    LET matches == FindStringSubmatch(pattern.regex, message)
        ip == TrimSpace(matches[pattern.ipGroup + 1])
        rv == recordViolation(acc.stats, acc.tree, ip, pattern.severity,
                              pattern.description, now)
    IN  IF Len(matches) > pattern.ipGroup /\ isValidIP(ip)
        THEN [stats |-> rv.stats, tree |-> rv.tree,
              hist |-> recordHistory(acc.hist, acc.stats, ip,
                                     pattern.severity, pattern.description,
                                     now),
              calls |-> Append(acc.calls,
                               [ip |-> ip, severity |-> pattern.severity,
                                description |-> pattern.description,
                                ban |-> rv.ban]),
              ok |-> acc.ok /\ withinBounds(acc.stats, ip, pattern.severity,
                                            pattern.description, now)]
        ELSE acc

\* a reader that stops at the first rule that records a violation
RECURSIVE syslogProcessMessage_FirstMatchOnly(_, _, _)
syslogProcessMessage_FirstMatchOnly(pats, message, acc) ==
    IF pats = <<>> \/ acc.calls # <<>> THEN acc
    ELSE syslogProcessMessage_FirstMatchOnly(
             Tail(pats), message, processPattern(Head(pats), message, acc))

\* syslog.Reader.processMessage: for _, pattern := range r.patterns
RECURSIVE syslogProcessMessage(_, _, _)
syslogProcessMessage(pats, message, acc) ==
    IF pats = <<>> THEN acc
    ELSE syslogProcessMessage(
             Tail(pats), message, processPattern(Head(pats), message, acc))

\* the reader constructed from a configuration in front of a new Manager
InitSyslog ==
    /\ cfg = ShortConfig
    /\ addrs = {V4, Malformed}
    /\ now = StartTime
    /\ stats = << >>
    /\ tree = NewRadixTree
    /\ blacklist = [ip \in addrs |-> "absent"]
    /\ whitelist = [ip \in addrs |-> "absent"]
    /\ last = Call("NewManager", "", FALSE, 0)
    /\ hist = [ip \in addrs |-> NoHistory]
    /\ mutex = Unlocked
    /\ procs = [g \in Goroutines |-> Idle]
    /\ reply = NoReply
    /\ clients = 0
    /\ syslogPatterns \in PatternLists
    /\ patterns = NewReader(syslogPatterns)
    /\ NoService

\* syslog.Reader.Start has read a datagram: r.processMessage(message)
ReaderProcessMessage(message) ==
    LET r == syslogProcessMessage(patterns, message, NoCalls)
    IN  /\ r.ok
        /\ stats' = r.stats
        /\ tree' = r.tree
        /\ hist' = r.hist
        /\ last' = IF r.calls = <<>> THEN last
                   ELSE Call("RecordViolation", r.calls[Len(r.calls)].ip,
                             r.calls[Len(r.calls)].ban, 0)
        /\ reply' = [adapter |-> "syslog", request |-> message,
                     calls |-> r.calls]
        /\ UNCHANGED <<cfg, addrs, now, blacklist, whitelist, mutex, procs,
                       clients, syslogPatterns, patterns, serviceVars>>

NextSyslog ==
    \/ Tick /\ UNCHANGED <<serverVars, adapterVars, serviceVars>>
    \/ \E message \in Messages : ReaderProcessMessage(message)

SpecSyslog == InitSyslog /\ [][NextSyslog]_vars

----------------------------------------------------------------------------
\* the text of capture group ip_group of the rule in the line: "" when the
\* regex does not match or has no such group
Capture(pattern, message) ==
    LET matches == message[pattern.regex]
    IN  IF Len(matches) > pattern.ipGroup THEN matches[pattern.ipGroup + 1]
        ELSE ""

\* the calls, without what they returned
Arguments(calls) ==
    [k \in 1..Len(calls) |->
        [ip |-> calls[k].ip, severity |-> calls[k].severity,
         description |-> calls[k].description]]

\* the Manager after RecordViolation has been called with each of the calls,
\* in order, at instant t
RECURSIVE ApplyCalls(_, _, _, _)
ApplyCalls(calls, s, tr, t) ==
    IF calls = <<>> THEN [stats |-> s, tree |-> tr]
    ELSE LET c == Head(calls)
             rv == recordViolation(s, tr, c.ip, c.severity, c.description, t)
         IN  ApplyCalls(Tail(calls), rv.stats, rv.tree, t)

\* C29 as stated: for each log line the reader calls RecordViolation exactly
\* once per compiled rule, in rule order, whose regex matches and whose
\* ip_group capture is a valid address, with the rule's severity and
\* description; the capture is taken as the regex captured it
C29_CallsForValidCaptures ==
    reply.adapter = "syslog" =>
        LET hits == SelectSeq(patterns,
                        LAMBDA p : isValidIP(Capture(p, reply.request)))
        IN  Arguments(reply.calls) =
                [k \in 1..Len(hits) |->
                    [ip |-> Capture(hits[k], reply.request),
                     severity |-> hits[k].severity,
                     description |-> hits[k].description]]

\* C29, amended: for each log line the reader calls RecordViolation exactly
\* once per compiled rule, in rule order, whose regex matches and whose
\* ip_group capture is a valid address once the white space around it is
\* removed, with the trimmed address and the rule's severity and
\* description; the ledger and the index change only by these calls, so a
\* line with no such rule leaves them unchanged
C29_CallsForTrimmedCaptures ==
    [][/\ reply'.adapter = "syslog" =>
              LET hits == SelectSeq(patterns,
                              LAMBDA p : isValidIP(TrimSpace(
                                             Capture(p, reply'.request))))
              IN  Arguments(reply'.calls) =
                      [k \in 1..Len(hits) |->
                          [ip |-> TrimSpace(Capture(hits[k], reply'.request)),
                           severity |-> hits[k].severity,
                           description |-> hits[k].description]]
       /\ (stats' # stats \/ tree' # tree) =>
              /\ reply'.adapter = "syslog"
              /\ reply'.calls # <<>>
              /\ stats' = ApplyCalls(reply'.calls, stats, tree, now).stats
              /\ tree' = ApplyCalls(reply'.calls, stats, tree, now).tree
      ]_vars

\* a line matched two rules: two calls in rule order, and the second one
\* banned the address
C29_Witness ==
    /\ reply.adapter = "syslog"
    /\ Len(reply.calls) = 2
    /\ reply.calls[1].description = patterns[1].description
    /\ reply.calls[2].description = patterns[2].description
    /\ patterns[1].description # patterns[2].description
    /\ reply.calls[2].ban
    /\ last = Call("RecordViolation", V4, TRUE, 0)

----------------------------------------------------------------------------
\* C35: RecordViolation for an address whose ban is running (BanExpiry after
\* now) appends the violation and sets LastSeen to now, and leaves BanExpiry
\* and BanCount as they were, however many violations arrive during the ban
C35_BannedStaysAsBanned ==
    [][\A ip \in DOMAIN stats :
          (/\ last'.op = "RecordViolation"
           /\ last'.ip = ip
           /\ After(stats[ip].BanExpiry, now))
          => /\ ip \in DOMAIN stats'
             /\ stats'[ip].BanExpiry = stats[ip].BanExpiry
             /\ stats'[ip].BanCount = stats[ip].BanCount
             /\ stats'[ip].LastSeen = now
             /\ stats'[ip].Violations # <<>>
             /\ stats'[ip].Violations[Len(stats'[ip].Violations)].Timestamp
                    = now
             /\ ~last'.ret
             /\ tree' = tree
      ]_vars

\* a violation has arrived during a ban, with the threshold met once more
C35_Witness ==
    /\ V4 \in DOMAIN stats
    /\ last = Call("RecordViolation", V4, FALSE, 0)
    /\ After(stats[V4].BanExpiry, now)
    /\ Len(stats[V4].Violations) >= cfg.MaxAttempts
    /\ stats[V4].LastSeen = now
    /\ stats[V4].BanCount = 1
----------------------------------------------------------------------------
\* C36: after a ban of an address has ended, the address is banned again
\* only after at least max_attempts further violations have been recorded
\* since the previous ban was applied; violations that counted toward the
\* previous ban are not reused.  Stated for the bans RecordViolation applies
\* to an entry that only RecordViolation has banned before
C36_FreshViolationsForNextBan ==
    [][\A ip \in DOMAIN stats :
          (/\ last'.op = "RecordViolation"
           /\ last'.ip = ip
           /\ last'.ret
           /\ stats[ip].BanCount > 0
           /\ hist[ip].manual = 0)
          => hist[ip].sinceBan + 1 >= cfg.MaxAttempts
      ]_vars
----------------------------------------------------------------------------
(* Two textual forms of one address: an IPv4 address and its IPv4-mapped    *)
(* IPv6 form are two keys of m.stats and one terminal of the RadixTree      *)

\* both forms pass net.ParseIP, so the log reader, the adapters and the admin
\* API hand either of them to the Manager
AliasAddrs == {V4, V4Mapped}

InitAliases ==
    /\ cfg = TightConfig
    /\ addrs = AliasAddrs
    /\ now = StartTime
    /\ stats = << >>
    /\ tree = NewRadixTree
    /\ blacklist = [ip \in addrs |-> "absent"]
    /\ whitelist = [ip \in addrs |-> "absent"]
    /\ last = Call("NewManager", "", FALSE, 0)
    /\ hist = [ip \in addrs |-> NoHistory]
    /\ mutex = Unlocked
    /\ procs = [g \in Goroutines |-> Idle]
    /\ NoServers

\* the log reader records violations, the adapters query, the admin API
\* unbans and the cleanup ticker fires
NextAliases ==
    /\ \/ Tick
       \/ RecordViolationStep
       \/ IsBannedStep
       \/ ManualUnbanStep
       \/ cleanup
    /\ UNCHANGED <<serverVars, adapterVars, serviceVars>>

SpecAliases == InitAliases /\ [][NextAliases]_vars

\* C34: every ledger entry of a valid address whose BanExpiry is after now
\* has IsBanned answer true (its terminal in the index has banned = true), so
\* GetAllBannedIPs and the count currently_banned agree with the answers
\* IsBanned gives address by address
C34_ListAgreesWithIsBanned ==
    /\ \A ip \in DOMAIN stats :
           (validateIP(ip) /\ After(stats[ip].BanExpiry, now))
               => (IsBannedResult(ip) /\ TerminalBanned(ip))
    /\ {ip \in GetAllBannedIPs : validateIP(ip)}
           = {ip \in addrs : IsBannedResult(ip)}

\* C37: RecordViolation and IsBanned treat every textual form of one address
\* as the same subject: IsBanned gives the same answer for all the forms, and
\* the ledger holds one entry for them
C37_FormsAreOneSubject ==
    \A a \in addrs, b \in addrs :
        (validateIP(a) /\ ipToBytes(a) = ipToBytes(b))
            => /\ IsBannedResult(a) = IsBannedResult(b)
               /\ (a \in DOMAIN stats /\ b \in DOMAIN stats) => a = b

\* C38: IsBanned(B), ManualUnban(B) and a cleanup pass leave the answer of
\* IsBanned for another ledger key A whose ban is running as it was, also
\* when A and B are two strings with one path in the index
C38_OtherKeyUnaffected ==
    [][\A A \in AllAddrs, B \in AllAddrs :
          (/\ A # B
           /\ A \in DOMAIN stats
           /\ IsBannedResult(A)
           /\ \/ last'.op \in {"IsBanned", "ManualUnban"} /\ last'.ip = B
              \/ last'.op = "cleanup")
          => IsBannedResult(A)'
      ]_vars
----------------------------------------------------------------------------
\* the goroutine is inside IsBanned at "m.tree.Delete(ip)" and Delete will
\* reach the terminal of ip and assign node.banned
WritesIndex(g) ==
    /\ procs[g].pc = "delete"
    /\ BitPath(ipToBytes(procs[g].ip)) \in DOMAIN tree
    /\ tree[BitPath(ipToBytes(procs[g].ip))].isEnd

\* C33: every write to the index or the ledger is made by a goroutine that
\* holds the exclusive lock; IsBanned writes to the index only after it has
\* taken the exclusive lock, so two goroutines holding the shared lock never
\* write the index at the same time
C33_WritesHoldExclusiveLock ==
    /\ \A g \in Goroutines :
           (procs[g].pc = "body" \/ WritesIndex(g)) => mutex.writer = g
    /\ Cardinality({g \in Goroutines : WritesIndex(g)}) <= 1
----------------------------------------------------------------------------
(* config.ConfigManager: loadFromDatabase and reloadConfiguration           *)

\* cfg.Database.MaxRetries
DatabaseConfig == [MaxRetries |-> 1]

\* largest failureCount explored
MaxFailures == 3

\* a nil slice, and a nil pointer; a pointer to a value is <<value>>
Nil == <<>>

\* what the database answers during one loadFromDatabase: db.Ping fails,
\* db.GetPatterns fails, db.GetBanConfig fails, or both queries return rows
\* (no pattern row gives an empty slice, no ban_config row gives nil)
Rows(dbPatterns, dbBanConfig) ==
    [err |-> "", patterns |-> dbPatterns, banConfig |-> dbBanConfig]
PingError == [Rows(Nil, Nil) EXCEPT !.err = "Ping"]
PatternsError == [Rows(Nil, Nil) EXCEPT !.err = "GetPatterns"]
BanConfigError == [Rows(Nil, Nil) EXCEPT !.err = "GetBanConfig"]

DatabaseAnswers ==
    {PingError, PatternsError, BanConfigError}
        \cup {Rows(p, b) : p \in {<<>>, <<Dovecot>>, <<Postfix, Dovecot>>},
                           b \in {Nil, <<DocConfig>>, <<ShortConfig>>,
                                  <<TightConfig>>}}

Failed(answer) == answer.err # ""

\* NewConfigManager up to "Initialize with file configuration"; db tells
\* whether database.NewDB succeeded (cm.db != nil)
NewConfigManager(db) ==
    [present |-> TRUE, db |-> db,
     patterns |-> <<Dovecot, Postfix>>, banConfig |-> <<DocConfig>>,
     dbConnected |-> FALSE, failureCount |-> 0,
     lastDbPatterns |-> Nil, lastDbBanConfig |-> Nil, updateChan |-> 0]

\* a successful load that leaves the failure count as it was
loadFromDatabase_KeepsCount(c, answer) ==
    IF ~c.db \/ Failed(answer)
    THEN [cm |-> [c EXCEPT !.dbConnected = FALSE, !.failureCount = @ + 1],
          err |-> ~c.db \/ (c.lastDbPatterns = Nil /\ c.lastDbBanConfig = Nil)]
    ELSE [cm |-> [c EXCEPT !.dbConnected = TRUE], err |-> FALSE]

\* ConfigManager.loadFromDatabase: the manager it leaves and whether it
\* returned an error
loadFromDatabase(c, answer) ==
    IF ~c.db
    THEN [cm |-> [c EXCEPT !.dbConnected = FALSE, !.failureCount = @ + 1],
          err |-> TRUE]
    ELSE IF Failed(answer)
    THEN [cm |-> [c EXCEPT !.dbConnected = FALSE, !.failureCount = @ + 1],
          err |-> c.lastDbPatterns = Nil /\ c.lastDbBanConfig = Nil]
    ELSE LET loadedPatterns == Len(answer.patterns) > 0
             loadedBanConfig == answer.banConfig # Nil
         IN  [cm |-> [c EXCEPT
                 !.dbConnected = TRUE,
                 !.failureCount = 0,
                 !.patterns = IF loadedPatterns THEN answer.patterns ELSE @,
                 !.lastDbPatterns =
                     IF loadedPatterns THEN answer.patterns ELSE @,
                 !.banConfig =
                     IF loadedBanConfig THEN answer.banConfig ELSE @,
                 !.lastDbBanConfig =
                     IF loadedBanConfig THEN answer.banConfig ELSE @,
                 !.updateChan =
                     IF loadedPatterns \/ loadedBanConfig THEN 1 ELSE @],
              err |-> FALSE]

\* the loop of reloadConfiguration from attempt number `attempt` on, the
\* database giving answers[attempt + 1]: the manager it leaves, the number
\* of attempts that failed, whether an attempt loaded the rows, and whether
\* an error is returned
RECURSIVE retry(_, _, _, _)
retry(c, answers, attempt, failed) ==
    IF attempt > DatabaseConfig.MaxRetries
    THEN [cm |-> c, failed |-> failed, loaded |-> FALSE, err |-> TRUE]
    ELSE LET answer == answers[attempt + 1]
             r == loadFromDatabase(c, answer)
         IN  IF r.err THEN retry(r.cm, answers, attempt + 1, failed + 1)
             ELSE IF Failed(answer)
             THEN [cm |-> r.cm, failed |-> failed + 1, loaded |-> FALSE,
                   err |-> FALSE]
             ELSE [cm |-> r.cm, failed |-> failed, loaded |-> TRUE,
                   err |-> FALSE]

\* ConfigManager.reloadConfiguration
reloadConfiguration(c, answers) ==
    IF ~c.db THEN [cm |-> c, failed |-> 0, loaded |-> FALSE, err |-> TRUE]
    ELSE retry(c, answers, 0, 0)

\* NewConfigManager has returned: the file configuration, and the first
\* loadFromDatabase when the database could be opened
InitConfig ==
    /\ cfg = DocConfig
    /\ addrs = {V4}
    /\ now = StartTime
    /\ stats = << >>
    /\ tree = NewRadixTree
    /\ blacklist = [ip \in addrs |-> "absent"]
    /\ whitelist = [ip \in addrs |-> "absent"]
    /\ last = Call("NewConfigManager", "", FALSE, 0)
    /\ hist = [ip \in addrs |-> NoHistory]
    /\ mutex = Unlocked
    /\ procs = [g \in Goroutines |-> Idle]
    /\ reply = NoReply
    /\ clients = 0
    /\ syslogPatterns = <<>>
    /\ patterns = <<>>
    /\ \E db \in BOOLEAN, answer \in DatabaseAnswers :
           cm = IF db THEN loadFromDatabase(NewConfigManager(db), answer).cm
                ELSE NewConfigManager(db)
    /\ sm = Absent
    /\ shutdown = Absent
    /\ conn = Absent

\* a call of reloadConfiguration by `caller`, with the answers the database
\* gives to its attempts
Reload(caller, answers) ==
    LET r == reloadConfiguration(cm, answers)
    IN  /\ r.cm.failureCount <= MaxFailures
        /\ cm' = r.cm
        /\ reply' = [adapter |-> "config", caller |-> caller,
                     failed |-> r.failed, loaded |-> r.loaded, err |-> r.err]
        /\ UNCHANGED <<managerVars, serverVars, clients, syslogPatterns,
                       patterns, sm, shutdown, conn>>

\* the goroutine of startReloadRoutine on a tick of reloadTicker; the
\* routine is started only when the database could be opened
reloadTick ==
    /\ cm.db
    /\ \E answers \in [1..(DatabaseConfig.MaxRetries + 1) -> DatabaseAnswers] :
           Reload("reloadTicker", answers)

\* ConfigManager.ForceReload
ForceReload ==
    \E answers \in [1..(DatabaseConfig.MaxRetries + 1) -> DatabaseAnswers] :
        Reload("ForceReload", answers)

NextConfig ==
    \/ reloadTick
    \/ ForceReload

SpecConfig == InitConfig /\ [][NextConfig]_vars

\* C31: when a reload from the database fails after startup, the patterns
\* and the ban config in use stay as the last successful load (or the file)
\* set them, failureCount grows by one per failed attempt and dbConnected
\* becomes false; a successful load sets dbConnected and failureCount to 0
C31_FailedReloadKeepsConfig ==
    [][/\ (reply'.adapter = "config" /\ ~reply'.loaded)
              => /\ cm'.patterns = cm.patterns
                 /\ cm'.banConfig = cm.banConfig
                 /\ cm'.lastDbPatterns = cm.lastDbPatterns
                 /\ cm'.lastDbBanConfig = cm.lastDbBanConfig
                 /\ cm'.failureCount = cm.failureCount + reply'.failed
                 /\ ~cm'.dbConnected
       /\ (reply'.adapter = "config" /\ reply'.loaded)
              => /\ cm'.dbConnected
                 /\ cm'.failureCount = 0
      ]_vars

\* a reload has failed twice in a row while a configuration loaded from the
\* database was in use, and the configuration is still in use
C31_Witness ==
    /\ reply.adapter = "config"
    /\ ~reply.loaded
    /\ reply.failed = 1
    /\ cm.failureCount = 2
    /\ ~cm.dbConnected
    /\ cm.patterns = <<Postfix, Dovecot>>
    /\ cm.banConfig = <<TightConfig>>
----------------------------------------------------------------------------
(* spoa.Server.handleClient: one connection and its read deadline           *)

\* no client is connected.  lastLine is the instant the last line arrived
\* (the instant of the connection before any line), closed tells how the
\* connection ended
NoConn ==
    [present |-> TRUE, open |-> FALSE, deadline |-> ZeroTime,
     lastLine |-> ZeroTime, closed |-> "", closedAt |-> ZeroTime]

InitConn ==
    /\ cfg = ShortConfig
    /\ addrs = {V4, Malformed}
    /\ now = StartTime
    /\ stats = << >>
    /\ tree = NewRadixTree
    /\ blacklist = [ip \in addrs |-> "absent"]
    /\ whitelist = [ip \in addrs |-> "absent"]
    /\ last = Call("NewManager", "", FALSE, 0)
    /\ hist = [ip \in addrs |-> NoHistory]
    /\ mutex = Unlocked
    /\ procs = [g \in Goroutines |-> Idle]
    /\ reply = NoReply
    /\ clients = 0
    /\ syslogPatterns = <<>>
    /\ patterns = <<>>
    /\ cm = Absent
    /\ sm = Absent
    /\ shutdown = Absent
    /\ conn = NoConn

\* Start accepts the client; handleClient begins:
\* conn.SetReadDeadline(time.Now().Add(s.cfg.SPOA.ReadTimeout))
acceptClient ==
    /\ ~conn.open
    /\ clients' = clients + 1
    /\ conn' = [NoConn EXCEPT !.open = TRUE,
                              !.deadline = now + SPOAConfig.ReadTimeout,
                              !.lastLine = now]
    /\ UNCHANGED <<managerVars, serverVars, reply, syslogPatterns, patterns,
                   cm, sm, shutdown>>

\* scanner.Scan() returns a line, which has arrived before the deadline of
\* the connection; the line is processed and answered
scanLine(parts) ==
    LET r == spoaProcessMessage(parts)
    IN  /\ conn.open
        /\ Before(now, conn.deadline)
        /\ conn' = [conn EXCEPT !.lastLine = now]
        /\ reply' = [adapter |-> "spoa", request |-> parts,
                     lookup |-> r.lookup, subject |-> r.ip,
                     banned |-> r.lookup /\ IsBannedResult(r.ip),
                     response |-> r.response]
        /\ tree' = IF r.lookup THEN IsBannedTree(r.ip) ELSE tree
        /\ last' = IF r.lookup
                   THEN Call("IsBanned", r.ip, IsBannedResult(r.ip), 0)
                   ELSE last
        /\ UNCHANGED <<cfg, addrs, now, stats, blacklist, whitelist, hist,
                       serverVars, clients, syslogPatterns, patterns,
                       cm, sm, shutdown>>

\* the connection leaves handleClient: conn.Close() and s.clients.Done()
closeConn(why) ==
    /\ conn' = [conn EXCEPT !.open = FALSE, !.closed = why, !.closedAt = now]
    /\ clients' = clients - 1
    /\ UNCHANGED <<managerVars, serverVars, reply, syslogPatterns, patterns,
                   cm, sm, shutdown>>

\* the deadline has passed: the pending read fails with a timeout,
\* scanner.Scan() returns false
readTimeout ==
    /\ conn.open
    /\ ~Before(now, conn.deadline)
    /\ closeConn("timeout")

\* the client closes the connection: scanner.Scan() returns false at EOF
clientCloses ==
    /\ conn.open
    /\ closeConn("eof")

NextConn ==
    \/ /\ \/ Tick
          \/ RecordViolationStep
       /\ UNCHANGED <<serverVars, adapterVars, serviceVars>>
    \/ acceptClient
    \/ \E parts \in SPOALines : scanLine(parts)
    \/ readTimeout
    \/ clientCloses

SpecConn == InitConn /\ [][NextConn]_vars

\* C39: a SPOA connection is closed for read timeout only when no line has
\* arrived for read_timeout; a client whose lines are less than read_timeout
\* apart keeps its connection
C39_TimeoutOnlyWhenSilent ==
    conn.closed = "timeout"
        => conn.closedAt - conn.lastLine >= SPOAConfig.ReadTimeout
----------------------------------------------------------------------------
(* api.SecurityMiddleware: allowed_ips, basic authentication, rate limit     *)

\* an entry of api.allowed_ips: a single address, or address "/" ones
SingleIP(ip) == [ip |-> ip, slash |-> FALSE, ones |-> 0]
CIDR(ip, ones) == [ip |-> ip, slash |-> TRUE, ones |-> ones]

\* number of bits of the binary form of an address: "/32" for IPv4
AddrBits(ip) == Len(BitPath(ipToBytes(ip)))

\* config.APIConfig: no restriction; the address of the administrator; its
\* network together with an entry that does not parse
APIConfigs ==
    [AllowedIPs : {<<>>, <<SingleIP(V4)>>,
                   <<SingleIP(Malformed), CIDR(V4, AddrBits(V4))>>},
     BasicAuth : BOOLEAN,
     RequestsPer : {2}]

\* rl.window = time.Minute, in the unit of the clock
RateWindow == 1

\* parseAllowedIPs: the networks, each one the bits its addresses start with;
\* an entry that does not parse is skipped
RECURSIVE parseAllowedIPs(_)
parseAllowedIPs(entries) ==
    IF entries = <<>> THEN <<>>
    ELSE LET e == Head(entries)
             ones == IF e.slash THEN e.ones ELSE AddrBits(e.ip)
         IN  IF ~validateIP(e.ip) \/ ones > AddrBits(e.ip)
             THEN parseAllowedIPs(Tail(entries))
             ELSE <<SubSeq(BitPath(ipToBytes(e.ip)), 1, ones)>>
                      \o parseAllowedIPs(Tail(entries))

\* SecurityMiddleware.isIPAllowed; ipNet.Contains(ip)
isIPAllowed(allowedNets, ipStr) ==
    IF allowedNets = <<>> THEN TRUE
    ELSE IF ~validateIP(ipStr) THEN FALSE
    ELSE \E i \in 1..Len(allowedNets) :
             /\ Len(allowedNets[i]) <= AddrBits(ipStr)
             /\ SubSeq(BitPath(ipToBytes(ipStr)), 1, Len(allowedNets[i]))
                    = allowedNets[i]

\* the requests: the address of the peer, the headers as the client sent
\* them (xff as strings.Split(xff, ",") returns it), and whether the request
\* carries the credentials of the administrator
APIRequests ==
    [remoteAddr : {RemoteAddr(V4, "1234"), RemoteAddr(V4Other, "1234"),
                   RemoteAddr(V4Other, "")},
     xff : {<<"">>, <<V4, V4Other>>},
     realIP : {"", Padded},
     credentials : BOOLEAN]

\* SecurityMiddleware.getClientIP; net.SplitHostPort fails on an address
\* without a port and the whole string is returned
getClientIP(r) ==
    IF r.xff # <<"">> THEN TrimSpace(Head(r.xff))
    ELSE IF r.realIP # "" THEN TrimSpace(r.realIP)
    ELSE r.remoteAddr.host

\* SecurityMiddleware.checkBasicAuth
checkBasicAuth(config, r) == ~config.BasicAuth \/ r.credentials

\* RateLimiter.Allow: the requests of the client inside the window, then the
\* limit; clients maps a client to the instants of its counted requests
Allow(clients_, limit, clientIP, t) ==
    LET requests == IF clientIP \in DOMAIN clients_ THEN clients_[clientIP]
                    ELSE <<>>
        validRequests == SelectSeq(requests,
                                   LAMBDA u : After(u, t - RateWindow))
        ok == Len(validRequests) < limit
    IN  [clients |-> [k \in DOMAIN clients_ \cup {clientIP} |->
                         IF k = clientIP
                         THEN IF ok THEN Append(validRequests, t)
                              ELSE validRequests
                         ELSE clients_[k]],
         ok |-> ok]

\* NewSecurityMiddleware
NewSecurityMiddleware(config) ==
    [present |-> TRUE, config |-> config,
     allowedNets |-> parseAllowedIPs(config.AllowedIPs),
     clients |-> << >>]

InitAPI ==
    /\ cfg = DocConfig
    /\ addrs = {V4}
    /\ now = StartTime
    /\ stats = << >>
    /\ tree = NewRadixTree
    /\ blacklist = [ip \in addrs |-> "absent"]
    /\ whitelist = [ip \in addrs |-> "absent"]
    /\ last = Call("NewManager", "", FALSE, 0)
    /\ hist = [ip \in addrs |-> NoHistory]
    /\ mutex = Unlocked
    /\ procs = [g \in Goroutines |-> Idle]
    /\ reply = NoReply
    /\ clients = 0
    /\ syslogPatterns = <<>>
    /\ patterns = <<>>
    /\ cm = Absent
    /\ \E config \in APIConfigs : sm = NewSecurityMiddleware(config)
    /\ shutdown = Absent
    /\ conn = Absent

\* SecurityMiddleware.Middleware serving one request: 403, 401, 429, or
\* next.ServeHTTP (the handler is reached)
Middleware(r) ==
    LET clientIP == getClientIP(r)
        allowed == isIPAllowed(sm.allowedNets, clientIP)
        authenticated == checkBasicAuth(sm.config, r)
        limiter == Allow(sm.clients, sm.config.RequestsPer, clientIP, now)
        status == IF ~allowed THEN 403
                  ELSE IF ~authenticated THEN 401
                  ELSE IF ~limiter.ok THEN 429
                  ELSE 200
    IN  /\ sm' = IF allowed /\ authenticated
                 THEN [sm EXCEPT !.clients = limiter.clients]
                 ELSE sm
        /\ reply' = [adapter |-> "api", request |-> r, clientIP |-> clientIP,
                     status |-> status, reached |-> status = 200]
        /\ UNCHANGED <<managerVars, serverVars, clients, syslogPatterns,
                       patterns, cm, shutdown, conn>>

NextAPI ==
    \/ Tick /\ UNCHANGED <<serverVars, adapterVars, serviceVars>>
    \/ \E r \in APIRequests : Middleware(r)

SpecAPI == InitAPI /\ [][NextAPI]_vars

\* C40: a request reaches a handler of the admin API only if the address of
\* the peer (the transport-level remote address) lies within the allowed_ips
\* ranges, when there are any; the headers of the request cannot change this
C40_OnlyAllowedPeersReachHandlers ==
    (reply.adapter = "api" /\ reply.reached /\ sm.allowedNets # <<>>)
        => isIPAllowed(sm.allowedNets, reply.request.remoteAddr.host)
----------------------------------------------------------------------------
(* main: the tasks under the shared context, the signal, and the wait       *)

\* time.After(30 * time.Second), in seconds
ShutdownTimeout == 30

\* the goroutines main adds to the WaitGroup
Tasks == {"syslog", "spoa", "envoy", "nginx", "cleanup"}

\* what nginx.Server.Start returns once ListenAndServe has returned err:
\* an error for every err but http.ErrServerClosed
nginxStartReturns_AnyError(err) == "error"

nginxStartReturns(err) == IF err = "ErrServerClosed" THEN "nil" ELSE "error"

\* a timer that never fires
timeAfter_Never(elapsed) == FALSE

\* <-time.After(30 * time.Second) is ready
timeAfter(elapsed) == elapsed >= ShutdownTimeout

\* every task is running and main waits on sigChan.  result is what the
\* Start of the task has returned ("running" before it returns); syslogPc is
\* the position of Reader.Start in its loop; listenerClosed, stopCalled and
\* shutdownCalled tell what the goroutines waiting on ctx.Done() have done;
\* elapsed is the time since cancel()
InitShutdown ==
    /\ cfg = ShortConfig
    /\ addrs = {V4}
    /\ now = StartTime
    /\ stats = << >>
    /\ tree = NewRadixTree
    /\ blacklist = [ip \in addrs |-> "absent"]
    /\ whitelist = [ip \in addrs |-> "absent"]
    /\ last = Call("NewManager", "", FALSE, 0)
    /\ hist = [ip \in addrs |-> NoHistory]
    /\ mutex = Unlocked
    /\ procs = [g \in Goroutines |-> Idle]
    /\ reply = NoReply
    /\ clients = 0
    /\ syslogPatterns = <<>>
    /\ patterns = <<>>
    /\ cm = Absent
    /\ sm = Absent
    /\ shutdown = [present |-> TRUE, ctxDone |-> FALSE, main |-> "signal",
                   how |-> "", elapsed |-> 0,
                   result |-> [t \in Tasks |-> "running"],
                   syslogPc |-> "select", listenerClosed |-> FALSE,
                   stopCalled |-> FALSE, shutdownCalled |-> FALSE]
    /\ conn = Absent

\* the variables a step of the shutdown leaves alone
shutdownFrame ==
    <<managerVars, serverVars, adapterVars, cm, sm, conn>>

\* the goroutine of the task is in Start and the process has not exited
Running(task) ==
    shutdown.result[task] = "running" /\ shutdown.main # "exited"

\* <-sigChan, then cancel()
signal ==
    /\ shutdown.main = "signal"
    /\ shutdown' = [shutdown EXCEPT !.ctxDone = TRUE, !.main = "wait"]
    /\ UNCHANGED shutdownFrame

\* syslog.Reader.Start at its select: return nil when the context is done,
\* else read with a deadline of one second
syslogSelect ==
    /\ Running("syslog")
    /\ shutdown.syslogPc = "select"
    /\ shutdown' = IF shutdown.ctxDone
                   THEN [shutdown EXCEPT !.result["syslog"] = "nil"]
                   ELSE [shutdown EXCEPT !.syslogPc = "read"]
    /\ UNCHANGED shutdownFrame

\* ReadFromUDP returns (a datagram, a timeout or another error): the loop
\* goes on
syslogRead ==
    /\ Running("syslog")
    /\ shutdown.syslogPc = "read"
    /\ shutdown' = [shutdown EXCEPT !.syslogPc = "select"]
    /\ UNCHANGED shutdownFrame

\* spoa.Server.Start: go func() { <-ctx.Done(); s.listener.Close() }()
spoaCloseListener ==
    /\ shutdown.ctxDone
    /\ shutdown.main # "exited"
    /\ ~shutdown.listenerClosed
    /\ shutdown' = [shutdown EXCEPT !.listenerClosed = TRUE]
    /\ UNCHANGED shutdownFrame

\* listener.Accept fails on the closed listener; case <-ctx.Done(): return nil
spoaAcceptFails ==
    /\ Running("spoa")
    /\ shutdown.listenerClosed
    /\ shutdown' = [shutdown EXCEPT !.result["spoa"] = "nil"]
    /\ UNCHANGED shutdownFrame

\* envoy.Server.Start: <-ctx.Done(); s.grpcServer.GracefulStop()
envoyGracefulStop ==
    /\ shutdown.ctxDone
    /\ shutdown.main # "exited"
    /\ ~shutdown.stopCalled
    /\ shutdown' = [shutdown EXCEPT !.stopCalled = TRUE]
    /\ UNCHANGED shutdownFrame

\* grpcServer.Serve returns nil after GracefulStop
envoyServeReturns ==
    /\ Running("envoy")
    /\ shutdown.stopCalled
    /\ shutdown' = [shutdown EXCEPT !.result["envoy"] = "nil"]
    /\ UNCHANGED shutdownFrame

\* nginx.Server.Start: <-ctx.Done(); s.server.Shutdown(shutdownCtx)
nginxShutdown ==
    /\ shutdown.ctxDone
    /\ shutdown.main # "exited"
    /\ ~shutdown.shutdownCalled
    /\ shutdown' = [shutdown EXCEPT !.shutdownCalled = TRUE]
    /\ UNCHANGED shutdownFrame

\* ListenAndServe returns http.ErrServerClosed once Shutdown has been called
nginxServeReturns ==
    /\ Running("nginx")
    /\ shutdown.shutdownCalled
    /\ shutdown' = [shutdown EXCEPT
                       !.result["nginx"] = nginxStartReturns("ErrServerClosed")]
    /\ UNCHANGED shutdownFrame

\* Manager.StartCleanup: case <-ctx.Done(): return
cleanupReturns ==
    /\ Running("cleanup")
    /\ shutdown.ctxDone
    /\ shutdown' = [shutdown EXCEPT !.result["cleanup"] = "nil"]
    /\ UNCHANGED shutdownFrame

\* Manager.StartCleanup: case <-ticker.C: m.cleanup()
cleanupTick ==
    /\ Running("cleanup")
    /\ cleanup
    /\ UNCHANGED <<serverVars, adapterVars, serviceVars>>

\* wg.Wait() has returned and done is closed: case <-done
exitGraceful ==
    /\ shutdown.main = "wait"
    /\ \A t \in Tasks : shutdown.result[t] # "running"
    /\ shutdown' = [shutdown EXCEPT !.main = "exited", !.how = "graceful"]
    /\ UNCHANGED shutdownFrame

\* case <-time.After(30 * time.Second)
exitTimeout ==
    /\ shutdown.main = "wait"
    /\ timeAfter(shutdown.elapsed)
    /\ shutdown' = [shutdown EXCEPT !.main = "exited", !.how = "timeout"]
    /\ UNCHANGED shutdownFrame

\* a second passes while main waits; main is not kept waiting once its timer
\* is ready
timePasses ==
    /\ shutdown.main = "wait"
    /\ shutdown.elapsed <= ShutdownTimeout
    /\ ~timeAfter(shutdown.elapsed)
    /\ shutdown' = [shutdown EXCEPT !.elapsed = @ + 1]
    /\ UNCHANGED shutdownFrame

TaskSteps ==
    \/ syslogSelect
    \/ syslogRead
    \/ spoaCloseListener
    \/ spoaAcceptFails
    \/ envoyGracefulStop
    \/ envoyServeReturns
    \/ nginxShutdown
    \/ nginxServeReturns
    \/ cleanupReturns

NextShutdown ==
    \/ signal
    \/ TaskSteps
    \/ cleanupTick
    \/ exitGraceful
    \/ exitTimeout
    \/ timePasses

SpecShutdown == InitShutdown /\ [][NextShutdown]_vars

\* the scheduler runs every goroutine that can take a step, and main leaves
\* its select once a case is ready; nothing is assumed about how much time
\* passes meanwhile
SpecShutdownFair ==
    /\ SpecShutdown
    /\ WF_vars(syslogSelect) /\ WF_vars(syslogRead)
    /\ WF_vars(spoaCloseListener) /\ WF_vars(spoaAcceptFails)
    /\ WF_vars(envoyGracefulStop) /\ WF_vars(envoyServeReturns)
    /\ WF_vars(nginxShutdown) /\ WF_vars(nginxServeReturns)
    /\ WF_vars(cleanupReturns)
    /\ WF_vars(exitGraceful \/ exitTimeout)

AllReturnedNil == \A t \in Tasks : shutdown.result[t] = "nil"

\* C32: after cancel(), no task returns an error and, unless the deadline
\* cuts the wait short, every task returns nil; the process exits, and it has
\* exited by the time 30 s have passed since cancel() even when tasks are
\* still running
C32_TasksReturnAndProcessExits ==
    /\ [](\A t \in Tasks : shutdown.result[t] # "error")
    /\ ([](shutdown.how # "timeout")) => (shutdown.ctxDone ~> AllReturnedNil)
    /\ shutdown.ctxDone ~> (shutdown.main = "exited")
    /\ [](shutdown.how = "graceful" => AllReturnedNil)
    /\ [](shutdown.main # "exited" => shutdown.elapsed <= ShutdownTimeout)
    /\ [](shutdown.main = "exited" => shutdown.elapsed <= ShutdownTimeout)

\* every task has returned nil after the signal and main has left its wait
\* through done
C32_Witness ==
    /\ shutdown.ctxDone
    /\ AllReturnedNil
    /\ shutdown.main = "exited"
    /\ shutdown.how = "graceful"
    /\ shutdown.elapsed > 0

====
